---- MODULE Spec2Model ----
(***************************************************************************)
(* Vector / hybrid k-NN search core of storage/rocksdb/rdb_vector_db.      *)
(*                                                                         *)
(* The model follows one search session handler (Rdb_vector_db_handler)    *)
(* driving one index.  The index is either the LSM scan variant            *)
(* (Rdb_vector_index_lsm) or an inverted-file variant                      *)
(* (Rdb_vector_index_ivf).  A scan advances one KV record per step so that *)
(* the session's cancellation flag (thd->killed) can be raised between any *)
(* two records.  Distances and scores are small naturals.  The records of  *)
(* an inverted list are those its KV iterator sees when it is created.     *)
(***************************************************************************)
EXTENDS Integers, Sequences, FiniteSets, TLC

(***************************************************************************)
(* Bounds of the model.                                                    *)
(***************************************************************************)
MaxRows == 2        \* rows the LSM distance-aware iterator yields per scan
MaxDist == 1        \* largest vector distance of a row
MaxSpatial == 1     \* largest spatial distance of a row
MaxLimit == 2       \* largest LIMIT of a query
MaxWeight == 1      \* largest hybrid weight
MaxPk == 2          \* primary keys 1..MaxPk: those a predicate can accept
                    \* and those stored in the inverted lists
NList == 2          \* inverted lists of the IVF index
MaxEnds == 4        \* list ends the index-scan context records at most
Dim == 2            \* index->dimension() of the index the model runs on

(***************************************************************************)
(* Program constants.                                                      *)
(***************************************************************************)
HybridFactor == 5   \* m_k = m_limit * 5 in knn_search_hybrid
IndexScanK == 100   \* "default k value for index scan"
FirstVectorId == 1024   \* seed of m_vector_id
DUMMY_VECTOR_ID == 42

HA_EXIT_SUCCESS == "HA_EXIT_SUCCESS"
HA_EXIT_FAILURE == "HA_EXIT_FAILURE"
HA_ERR_END_OF_FILE == "HA_ERR_END_OF_FILE"
HA_ERR_UNSUPPORTED == "HA_ERR_UNSUPPORTED"
HA_ERR_ROCKSDB_CORRUPT_DATA == "HA_ERR_ROCKSDB_CORRUPT_DATA"
HA_ERR_QUERY_INTERRUPTED == "HA_ERR_QUERY_INTERRUPTED"

FB_VECTOR_SEARCH_KNN_FIRST == "KNN_FIRST"
FB_VECTOR_SEARCH_INDEX_SCAN == "INDEX_SCAN"
FB_VECTOR_SEARCH_KNN_HYBRID == "KNN_HYBRID"
SearchTypes ==
  {FB_VECTOR_SEARCH_KNN_FIRST, FB_VECTOR_SEARCH_INDEX_SCAN,
   FB_VECTOR_SEARCH_KNN_HYBRID}

LSMIDX == "LSMIDX"
IVF == "IVF"

Min(a, b) == IF a < b THEN a ELSE b

VARIABLES
  \* ---- the session (THD) and the query's environment
  thd_killed,        \* thd->killed
  pk_index_cond,     \* <<>> (no predicate) or <<S>>: the predicate accepts
                     \* the rows whose primary key is in S
  pc,                \* position of the session: idle, ready, lsm, ivf, open,
                     \* has_more_results, next_result (inside that call on
                     \* the index-scan iterator), failed, ended
  rtn,               \* return value of Rdb_vector_db_handler::search
  \* ---- Rdb_vector_db_handler
  m_buffer,          \* number of elements of the input vector
  m_search_type,
  m_limit,
  m_nprobe,
  m_weight,
  m_search_result,
  m_search_result_with_value,
  m_vector_db_result_iter,
  m_vector_db_result_with_value_iter,
  m_index_scan_result_iter,   \* <<>> (nullptr) or <<Rdb_vector_list_iterator>>
  \* ---- the index
  index_type,
  m_hit,
  unread,            \* the KV store: primary keys no iterator has seen yet
  truncated,         \* every row of the table has been deleted
  called,            \* history: the entries of the index the search of the
                     \* statement has called, in order
  sessions,          \* the other sessions that use the index, each with a
                     \* handler of its own
  m_list_size_stats, \* Rdb_vector_index_ivf::m_list_size_stats
  \* ---- locals of the running LSM scan
  k,
  top_k_heap,
  keys_scanned,
  scanned,           \* history: distances of the rows fed to the heap, sorted
  \* ---- the running IVF search (the distance library's scan)
  f_probe,           \* list ids ranked by the quantizer
  f_idx,             \* index in f_probe of the list being scanned
  f_it,              \* <<>> or <<Rdb_vector_iterator>> of the list being scanned
  f_ctx,             \* the query's Rdb_faiss_inverted_list_context
  f_heap,            \* the distance library's result heap
  handed,            \* history: primary keys handed to get_id_and_codes
  skipped,           \* history: primary keys passed inside is_available
  polled,            \* the last answer of has_more_results() on the index-scan
                     \* iterator: "more", "end", or "none" once the cursor moved
  opened_after_error,\* history: lists opened by the list iterator while its
                     \* context held an error
  \* ---- a call of one of the decoding functions
  arg,               \* the arguments of the call
  ret                \* NotCalled before the call, then what the call ended with

qryVars == <<m_buffer, m_search_type, m_limit, m_nprobe, m_weight>>
resVars ==
  <<m_search_result, m_search_result_with_value, m_vector_db_result_iter,
    m_vector_db_result_with_value_iter, m_index_scan_result_iter>>
hdlVars == <<qryVars, resVars>>
idxVars == <<index_type, m_hit, unread, m_list_size_stats>>
lsmVars == <<k, top_k_heap, keys_scanned, scanned>>
ivfVars == <<f_probe, f_idx, f_it, f_ctx, f_heap, handed, skipped>>
pureVars == <<arg, ret>>
vars ==
  <<thd_killed, pk_index_cond, pc, rtn, hdlVars, idxVars, lsmVars, ivfVars,
    polled, opened_after_error, truncated, called, sessions, pureVars>>

(***************************************************************************)
(* std::priority_queue<PqElement, vector, cmp> with cmp(a, b) = a.first <  *)
(* b.first: a binary max-heap kept in a vector (push_heap / pop_heap).     *)
(***************************************************************************)
cmp(a, b) == a.first < b.first

RECURSIVE SiftUp(_, _, _)
SiftUp(h, hole, e) ==
  IF hole > 1 /\ cmp(h[hole \div 2], e)
  THEN SiftUp([h EXCEPT ![hole] = h[hole \div 2]], hole \div 2, e)
  ELSE [h EXCEPT ![hole] = e]

heap_push(h, e) == SiftUp(Append(h, e), Len(h) + 1, e)

RECURSIVE SiftDown(_, _, _)
SiftDown(h, hole, e) ==
  LET n == Len(h)
      l == 2 * hole
      r == 2 * hole + 1
  IN IF r <= n
     THEN LET c == IF cmp(h[r], h[l]) THEN l ELSE r
          IN SiftDown([h EXCEPT ![hole] = h[c]], c, e)
     ELSE IF l = n
          THEN SiftDown([h EXCEPT ![hole] = h[l]], l, e)
          ELSE SiftUp(h, hole, e)

heap_pop(h) ==
  IF Len(h) <= 1 THEN <<>>
  ELSE SiftDown(SubSeq(h, 1, Len(h) - 1), 1, h[Len(h)])

heap_top(h) == h[1]

Reverse(s) == [i \in 1..Len(s) |-> s[Len(s) + 1 - i]]

(***************************************************************************)
(* Rows yielded by the LSM iterator.  A row has a value that is empty or   *)
(* holds a vector (at distance dist of the query) and a coordinate (at     *)
(* spatial distance sdist of the query coordinate).  ok = FALSE is a value *)
(* that DecodeFieldFromValue or ExtractVectorFromJson rejects.  The key of *)
(* a row that reaches the heap is its rank among the rows that reached it. *)
(***************************************************************************)
EmptyRow == [empty |-> TRUE, ok |-> TRUE, dist |-> 0, sdist |-> 0]
CorruptRow == [empty |-> FALSE, ok |-> FALSE, dist |-> 0, sdist |-> 0]

RowInputs(type) ==
  {EmptyRow, CorruptRow} \cup
  [empty : {FALSE}, ok : {TRUE}, dist : 0..MaxDist,
   sdist : IF type = FB_VECTOR_SEARCH_KNN_HYBRID THEN 0..MaxSpatial ELSE {0}]

\* the predicates a query can carry, and Item::val_int() on a row's key
Predicates == {<<>>} \cup {<<S>> : S \in SUBSET (1..MaxPk)}
val_int(cond, key) == key \in cond[1]

\* the ordered insertion of a distance into the history of fed distances
RECURSIVE InsertSorted(_, _)
InsertSorted(s, d) ==
  IF s = <<>> THEN <<d>>
  ELSE IF d <= Head(s) THEN <<d>> \o s
       ELSE <<Head(s)>> \o InsertSorted(Tail(s), d)

(***************************************************************************)
(* The heap update of one decoded row, lines 1285-1292 (k-NN),             *)
(* 1443-1450 (hybrid) and 1546-1553 (index scan).                          *)
(***************************************************************************)
PqElement(score, key, row) == [first |-> score, key |-> key, value |-> row]

\* variants of the heap update with a slip in one of its two tests
lsm_heap_update_over(heap, kk, distance, key, row) ==
  IF Len(heap) <= kk
  THEN heap_push(heap, PqElement(distance, key, row))
  ELSE IF distance < heap_top(heap).first
       THEN heap_push(heap_pop(heap), PqElement(distance, key, row))
       ELSE heap

lsm_heap_update_larger(heap, kk, distance, key, row) ==
  IF Len(heap) < kk
  THEN heap_push(heap, PqElement(distance, key, row))
  ELSE IF distance > heap_top(heap).first
       THEN heap_push(heap_pop(heap), PqElement(distance, key, row))
       ELSE heap

lsm_heap_update(heap, kk, distance, key, row) ==
  IF Len(heap) < kk
  THEN heap_push(heap, PqElement(distance, key, row))
  ELSE IF distance < heap_top(heap).first
       THEN heap_push(heap_pop(heap), PqElement(distance, key, row))
       ELSE heap

hybrid_heap_update(heap, kk, distance, distance_spatial, weight, key, row) ==
  IF Len(heap) < kk
  THEN heap_push(heap,
                 PqElement(distance + weight * distance_spatial, key, row))
  ELSE IF distance < heap_top(heap).first
       THEN heap_push(heap_pop(heap), PqElement(distance, key, row))
       ELSE heap

\* lines 1296-1303: drain the heap into the result and reverse it
RECURSIVE drain_heap(_)
drain_heap(heap) ==
  IF heap = <<>> THEN <<>>
  ELSE <<[key |-> heap_top(heap).key, score |-> heap_top(heap).first,
          value |-> heap_top(heap).value]>> \o drain_heap(heap_pop(heap))

\* variant that forgets the reversal
lsm_result_unreversed(heap) == drain_heap(heap)

lsm_result(heap) == Reverse(drain_heap(heap))


(***************************************************************************)
(* Records of the inverted lists.  A record has a primary key pk, codes at *)
(* distance dist of the query, and a kind:                                 *)
(*   ok          well formed                                               *)
(*   bad_key     the key fails read_inverted_list_key or has no pk suffix  *)
(*   bad_tag     the value is longer than code_size and starts with an     *)
(*               unknown unpack tag                                        *)
(*   bad_unpack  Rdb_key_def::unpack_record rejects the record             *)
(* A primary key is stored in one list at most.                            *)
(***************************************************************************)
RecKinds == {"ok", "bad_key", "bad_tag", "bad_unpack"}

\* the records primary key pk can be stored as
RecordsOf(pk, dists) ==
  {[pk |-> pk, kind |-> "ok", dist |-> d] : d \in dists} \cup
  {[pk |-> pk, kind |-> kd, dist |-> 0] : kd \in RecKinds \ {"ok"}}

\* the contents a list can have: records in key order of some of the keys pks
RECURSIVE ListContents(_, _)
ListContents(pks, dists) ==
  IF pks = {} THEN {<<>>}
  ELSE LET p == CHOOSE x \in pks : \A y \in pks : x <= y
           prepend(rest) ==
             rest \cup {<<r>> \o c : r \in RecordsOf(p, dists), c \in rest}
       IN prepend(ListContents(pks \ {p}, dists))

PksOf(content) == {content[i].pk : i \in DOMAIN content}

(***************************************************************************)
(* Rdb_faiss_inverted_list_context                                         *)
(***************************************************************************)
NewContext ==
  [m_error |-> HA_EXIT_SUCCESS, m_current_list_size |-> 0,
   m_list_size_stats |-> <<>>, m_vector_id |-> FirstVectorId,
   m_vectorid_key |-> <<>>]

on_iterator_end(ctx, list_id) ==
  [ctx EXCEPT
     !.m_list_size_stats =
        IF ctx.m_error = HA_EXIT_SUCCESS
        THEN Append(@, <<list_id, ctx.m_current_list_size>>) ELSE @,
     !.m_current_list_size = 0]

on_iterator_record(ctx) ==
  [ctx EXCEPT !.m_current_list_size = @ + 1]

\* variant that issues the same id again
add_key_same_id(ctx, key) ==
  [ctx EXCEPT !.m_vectorid_key = [@ EXCEPT ![Len(@)] = key]]

\* the context after add_key; the id issued is ctx.m_vector_id
add_key(ctx, key) ==
  [ctx EXCEPT !.m_vector_id = @ + 1, !.m_vectorid_key = Append(@, key)]

\* m_vectorid_key as a map: ids FirstVectorId, FirstVectorId + 1, ...
has_key(ctx, id) ==
  id >= FirstVectorId /\ id - FirstVectorId + 1 <= Len(ctx.m_vectorid_key)
key_of(ctx, id) == ctx.m_vectorid_key[id - FirstVectorId + 1]

\* populate_result over the (distance, id) pairs in ascending order
RECURSIVE populate_result(_, _, _)
populate_result(ctx, pairs, result) ==
  IF pairs = <<>> \/ Head(pairs).key < 0
  THEN [rtn |-> HA_EXIT_SUCCESS, result |-> result]
  ELSE IF ~has_key(ctx, Head(pairs).key)
       THEN [rtn |-> HA_EXIT_FAILURE, result |-> result]
       ELSE populate_result(ctx, Tail(pairs),
              Append(result, [key |-> key_of(ctx, Head(pairs).key),
                              score |-> Head(pairs).score]))

(***************************************************************************)
(* Rdb_vector_iterator: [m_list_id, recs]; recs are the records of the     *)
(* list from the position of the KV iterator on, as the KV iterator saw    *)
(* them when it was created (SeekToFirst).                                 *)
(***************************************************************************)
NewIterator(list_id, content) == [m_list_id |-> list_id, recs |-> content]
Valid(it) == it.recs # <<>>
Current(it) == Head(it.recs)
\* variant that moves two records on when there are two
iter_next_twice(it) ==
  [it EXCEPT !.recs = IF Len(@) > 1 THEN Tail(Tail(@)) ELSE Tail(@)]
\* m_iterator->Next()
iter_next(it) == [it EXCEPT !.recs = Tail(@)]

\* get_key_and_value(key, value, need_value) on the current record
get_key_and_value(rec, need_value) ==
  IF rec.kind = "bad_key" THEN HA_ERR_ROCKSDB_CORRUPT_DATA
  ELSE IF need_value /\ rec.kind = "bad_tag" THEN HA_ERR_ROCKSDB_CORRUPT_DATA
  ELSE HA_EXIT_SUCCESS

\* the return value of get_key_and_codes on the current record
get_key_and_codes(rec) ==
  IF rec.kind \in {"bad_key", "bad_tag"} THEN HA_ERR_ROCKSDB_CORRUPT_DATA
  ELSE HA_EXIT_SUCCESS

unpack_record(rec) ==
  IF rec.kind = "bad_unpack" THEN HA_ERR_ROCKSDB_CORRUPT_DATA
  ELSE HA_EXIT_SUCCESS

\* variant of the loop that signals a record without evaluating the predicate
is_available_loop_unfiltered(it, error, killed, cond) ==
  IF Valid(it) /\ error = HA_EXIT_SUCCESS /\ killed
  THEN [it |-> it, error |-> HA_ERR_QUERY_INTERRUPTED]
  ELSE [it |-> it, error |-> error]

\* the loop of is_available (697-743): the position and the error it ends with
RECURSIVE is_available_loop(_, _, _, _)
is_available_loop(it, error, killed, cond) ==
  IF Valid(it) /\ error = HA_EXIT_SUCCESS
  THEN IF killed THEN [it |-> it, error |-> HA_ERR_QUERY_INTERRUPTED]
       ELSE IF cond = <<>> THEN [it |-> it, error |-> error]
       ELSE LET rec == Current(it)
                e1 == get_key_and_value(rec, TRUE)
                e2 == unpack_record(rec)
            IN IF e1 # HA_EXIT_SUCCESS THEN [it |-> it, error |-> e1]
               ELSE IF e2 # HA_EXIT_SUCCESS THEN [it |-> it, error |-> e2]
               ELSE IF val_int(cond, rec.pk) THEN [it |-> it, error |-> e2]
               ELSE is_available_loop(iter_next(it), error, killed, cond)
  ELSE [it |-> it, error |-> error]

\* Rdb_vector_iterator::is_available: the answer, the iterator and the context
is_available(it, ctx, killed, cond) ==
  LET answer(r) ==
        IF r.error = HA_EXIT_SUCCESS /\ Valid(r.it)
        THEN [available |-> TRUE, it |-> r.it,
              ctx |-> [ctx EXCEPT !.m_error = r.error]]
        ELSE [available |-> FALSE, it |-> r.it,
              ctx |-> on_iterator_end([ctx EXCEPT !.m_error = r.error],
                                      it.m_list_id)]
  IN answer(is_available_loop(it, ctx.m_error, killed, cond))

\* the primary keys of the records between the positions of it0 and of it1
PassedPks(it0, it1) ==
  [i \in 1..(Len(it0.recs) - Len(it1.recs)) |-> it0.recs[i].pk]

\* Rdb_vector_iterator::get_id_and_codes: the id handed to the distance
\* library and the context
get_id_and_codes(it, ctx) ==
  LET rec == Current(it)
      e == get_key_and_codes(rec)
  IN IF e # HA_EXIT_SUCCESS
     THEN [id |-> DUMMY_VECTOR_ID, dist |-> 0, ctx |-> [ctx EXCEPT !.m_error = e]]
     ELSE [id |-> ctx.m_vector_id, dist |-> rec.dist,
           ctx |-> add_key(on_iterator_record(ctx), rec.pk)]

(***************************************************************************)
(* Rdb_vector_list_iterator:                                               *)
(*   [m_list_ids, m_list_id_iter, m_current_iterator, m_context, m_error]  *)
(* m_list_id_iter is an index into m_list_ids, m_current_iterator is <<>>  *)
(* (nullptr) or <<Rdb_vector_iterator>>.                                   *)
(***************************************************************************)
NewListIterator(list_ids) ==
  [m_list_ids |-> list_ids, m_list_id_iter |-> 1, m_current_iterator |-> <<>>,
   m_context |-> NewContext, m_error |-> HA_EXIT_SUCCESS]

\* m_current_iterator != nullptr && m_current_iterator->is_available(): the
\* return statement (950); the condition of the loop (939-940) is its negation
current_is_available(li, killed, cond) ==
  LET put(a) ==
        [available |-> a.available,
         li |-> [li EXCEPT !.m_current_iterator = <<a.it>>,
                           !.m_context = a.ctx]]
  IN IF li.m_current_iterator = <<>> THEN [available |-> FALSE, li |-> li]
     ELSE put(is_available(li.m_current_iterator[1], li.m_context, killed,
                           cond))

\* variant that takes every slot of the quantizer's answer for a list
list_loop_breaks_any_slot(li) ==
  \/ li.m_error # HA_EXIT_SUCCESS
  \/ li.m_list_id_iter > Len(li.m_list_ids)

\* the body of the loop breaks (941-944)
list_loop_breaks(li) ==
  \/ li.m_error # HA_EXIT_SUCCESS
  \/ li.m_list_id_iter > Len(li.m_list_ids)
  \/ li.m_list_ids[li.m_list_id_iter] < 0

(***************************************************************************)
(* Initial states: a freshly constructed handler and index.  The LSM       *)
(* variant keeps no inverted lists; no iterator of the IVF variant has     *)
(* read a record yet.                                                      *)
(***************************************************************************)
InitHandler ==
  /\ thd_killed = FALSE
  /\ pk_index_cond = <<>>
  /\ pc = "idle"
  /\ rtn = HA_EXIT_SUCCESS
  /\ m_buffer = 0
  /\ m_search_type = FB_VECTOR_SEARCH_KNN_FIRST
  /\ m_limit = 0
  /\ m_nprobe = 0
  /\ m_weight = 0
  /\ m_search_result = <<>>
  /\ m_search_result_with_value = <<>>
  /\ m_vector_db_result_iter = 1
  /\ m_vector_db_result_with_value_iter = 1
  /\ m_index_scan_result_iter = <<>>
  /\ m_hit = 0
  /\ truncated = FALSE
  /\ called = <<>>
  /\ sessions = <<>>
  /\ m_list_size_stats = [l \in 0..(NList - 1) |-> -1]
  /\ k = 0
  /\ top_k_heap = <<>>
  /\ keys_scanned = 0
  /\ scanned = <<>>
  /\ f_probe = <<>>
  /\ f_idx = 1
  /\ f_it = <<>>
  /\ f_ctx = NewContext
  /\ f_heap = <<>>
  /\ handed = <<>>
  /\ skipped = <<>>
  /\ polled = "none"
  /\ opened_after_error = 0

\* no decoding function is under study
NotCalled == [rtn |-> "none"]
NoCall ==
  /\ arg = [fn |-> "none"]
  /\ ret = NotCalled

InitLsm ==
  /\ InitHandler
  /\ NoCall
  /\ index_type = LSMIDX
  /\ unread = {}

InitIvf ==
  /\ InitHandler
  /\ NoCall
  /\ index_type = IVF
  /\ unread = 1..MaxPk

(***************************************************************************)
(* The session's cancellation flag is raised by another thread while the   *)
(* query runs: before or during the search, or while the cursor still      *)
(* reads the KV store.                                                     *)
(***************************************************************************)
Kill ==
  /\ ~thd_killed
  /\ \/ pc \in {"ready", "lsm", "ivf", "has_more_results", "next_result"}
     \/ pc = "open" /\ m_index_scan_result_iter # <<>>
  /\ thd_killed' = TRUE
  /\ UNCHANGED <<pk_index_cond, pc, rtn, hdlVars, idxVars, lsmVars, ivfVars,
                 polled, opened_after_error>>
  /\ UNCHANGED <<truncated, called, sessions, pureVars>>

(***************************************************************************)
(* Rdb_vector_db_handler::vector_index_orderby_init: the query's           *)
(* parameters are taken from the ORDER BY expression, its search type from *)
(* types.  nprobe only matters to the IVF variant.                         *)
(***************************************************************************)
vector_index_orderby_init(types) ==
  /\ pc = "idle"
  /\ \E type \in types, limit \in 0..MaxLimit, len \in 0..(Dim + 1),
        cond \in Predicates, weight \in 1..MaxWeight,
        nprobe \in IF index_type = IVF THEN 1..(NList + 1) ELSE {1} :
       /\ m_search_type' = type
       /\ m_limit' = limit
       /\ m_nprobe' = nprobe
       /\ m_weight' = IF type = FB_VECTOR_SEARCH_KNN_HYBRID
                      THEN weight ELSE m_weight
       /\ m_buffer' = len
       /\ pk_index_cond' = cond
  /\ pc' = "ready"
  /\ UNCHANGED <<thd_killed, rtn, resVars, idxVars, lsmVars, ivfVars,
                 polled, opened_after_error>>
  /\ UNCHANGED <<truncated, called, sessions, pureVars>>

(***************************************************************************)
(* Rdb_vector_db_handler::search: the prologue common to knn_search        *)
(* (1978-1992), knn_search_hybrid (2017-2029) and index_scan (1949-1957).  *)
(***************************************************************************)
IsKnn == m_search_type = FB_VECTOR_SEARCH_KNN_FIRST
IsHybrid == m_search_type = FB_VECTOR_SEARCH_KNN_HYBRID
IsIndexScan == m_search_type = FB_VECTOR_SEARCH_INDEX_SCAN

(***************************************************************************)
(* The entries of an index.  Rdb_vector_index (rdb_vector_db.h 103-140)    *)
(* answers HA_ERR_UNSUPPORTED in knn_search_with_value,                    *)
(* knn_search_hybrid_with_value and index_scan_with_value;                 *)
(* Rdb_vector_index_lsm overrides these three and answers                  *)
(* HA_ERR_UNSUPPORTED in knn_search and index_scan (1112-1148);            *)
(* Rdb_vector_index_ivf, the class of the FLAT, IVFFLAT and IVFPQ          *)
(* variants (1890-1894), overrides knn_search and index_scan (1598-1654).  *)
(***************************************************************************)
index_implements(variant, entry) ==
  IF variant = LSMIDX
  THEN entry \in {"knn_search_with_value", "knn_search_hybrid_with_value",
                  "index_scan_with_value"}
  ELSE entry \in {"knn_search", "index_scan"}

\* the entry the handler calls first (1959, 1996, 2031)
first_entry(search_type) ==
  CASE search_type = FB_VECTOR_SEARCH_KNN_FIRST -> "knn_search_with_value"
    [] search_type = FB_VECTOR_SEARCH_KNN_HYBRID ->
         "knn_search_hybrid_with_value"
    [] search_type = FB_VECTOR_SEARCH_INDEX_SCAN -> "index_scan"

\* the entry it calls when the first one answers HA_ERR_UNSUPPORTED (1962,
\* 1999); knn_search_hybrid has none
alternative_entry(search_type) ==
  CASE search_type = FB_VECTOR_SEARCH_KNN_FIRST -> <<"knn_search">>
    [] search_type = FB_VECTOR_SEARCH_KNN_HYBRID -> <<>>
    [] search_type = FB_VECTOR_SEARCH_INDEX_SCAN -> <<"index_scan_with_value">>

\* variant that returns what the first entry answers
entries_called_first_only(search_type, variant) == <<first_entry(search_type)>>

\* the entries a search of search_type calls on an index of the variant
entries_called(search_type, variant) ==
  IF index_implements(variant, first_entry(search_type))
  THEN <<first_entry(search_type)>>
  ELSE <<first_entry(search_type)>> \o alternative_entry(search_type)

\* the entry whose answer the handler's entry goes on with
entry_run == entries_called(m_search_type, index_type)[
               Len(entries_called(m_search_type, index_type))]

\* the status of the checks on m_buffer and m_limit
search_precheck ==
  IF m_buffer = 0 \/ (~IsIndexScan /\ m_limit = 0) THEN HA_ERR_END_OF_FILE
  ELSE IF m_buffer > Dim THEN HA_EXIT_FAILURE
  ELSE HA_EXIT_SUCCESS

\* the clearing of the result collections at the top of the entry
search_clear ==
  /\ m_search_result' = IF IsKnn THEN <<>> ELSE m_search_result
  /\ m_vector_db_result_iter' = IF IsKnn THEN 1 ELSE m_vector_db_result_iter
  /\ m_search_result_with_value' =
       IF IsIndexScan THEN m_search_result_with_value ELSE <<>>
  /\ m_vector_db_result_with_value_iter' =
       IF IsIndexScan THEN m_vector_db_result_with_value_iter ELSE 1

search_rejected ==
  /\ pc = "ready"
  /\ search_precheck # HA_EXIT_SUCCESS
  /\ search_clear
  /\ rtn' = search_precheck
  /\ pc' = "failed"
  /\ UNCHANGED <<thd_killed, pk_index_cond, qryVars, m_index_scan_result_iter,
                 idxVars, lsmVars, ivfVars, polled, opened_after_error>>
  /\ UNCHANGED <<truncated, called, sessions, pureVars>>

(***************************************************************************)
(* search on the LSM variant up to the first row of the scan: the handler  *)
(* calls knn_search_with_value (1996), knn_search_hybrid_with_value (2033) *)
(* or index_scan, which is unsupported, then index_scan_with_value (1963). *)
(* The entry counts the hit, clears the result and reads the table layout  *)
(* (1208-1237, 1317-1346, 1475-1504).                                      *)
(***************************************************************************)
search_begin_lsm ==
  /\ pc = "ready"
  /\ index_type = LSMIDX
  /\ index_implements(index_type, entry_run)
  /\ search_precheck = HA_EXIT_SUCCESS
  /\ m_buffer' = Dim
  /\ m_hit' = m_hit + 1
  /\ m_search_result' = IF IsKnn THEN <<>> ELSE m_search_result
  /\ m_vector_db_result_iter' = IF IsKnn THEN 1 ELSE m_vector_db_result_iter
  /\ m_search_result_with_value' = <<>>
  /\ m_vector_db_result_with_value_iter' =
       IF IsIndexScan THEN m_vector_db_result_with_value_iter ELSE 1
  /\ k' = IF IsKnn THEN m_limit
          ELSE IF IsHybrid THEN m_limit * HybridFactor ELSE IndexScanK
  /\ top_k_heap' = <<>>
  /\ keys_scanned' = 0
  /\ scanned' = <<>>
  /\ \E table_info_ok \in BOOLEAN :
       IF table_info_ok
       THEN pc' = "lsm" /\ UNCHANGED rtn
       ELSE pc' = "failed" /\ rtn' = HA_ERR_ROCKSDB_CORRUPT_DATA
  /\ UNCHANGED <<thd_killed, pk_index_cond, m_search_type, m_limit, m_nprobe,
                 m_weight, m_index_scan_result_iter, index_type, unread,
                 m_list_size_stats, ivfVars, polled, opened_after_error>>
  /\ called' = entries_called(m_search_type, index_type)
  /\ UNCHANGED <<truncated, sessions, pureVars>>

(***************************************************************************)
(* One iteration of the scan loop (1243-1294, 1391-1452, 1508-1555): the   *)
(* iterator is valid and yields a row, one of the rows of the table.  On a *)
(* table without rows the iterator is never valid.                         *)
(***************************************************************************)
lsm_scan_row(rows) ==
  /\ pc = "lsm"
  /\ ~truncated
  /\ keys_scanned < rows
  /\ \E row \in RowInputs(m_search_type) :
       /\ keys_scanned' = IF row.ok THEN keys_scanned + 1 ELSE 0
       /\ IF row.empty
          THEN UNCHANGED <<pc, rtn, top_k_heap, scanned>>
          ELSE IF ~row.ok
          THEN /\ pc' = "failed"
               /\ rtn' = HA_ERR_ROCKSDB_CORRUPT_DATA
               /\ top_k_heap' = <<>>
               /\ UNCHANGED scanned
          ELSE /\ top_k_heap' =
                    IF IsHybrid
                    THEN hybrid_heap_update(top_k_heap, k, row.dist, row.sdist,
                                            m_weight, Len(scanned) + 1, row)
                    ELSE lsm_heap_update(top_k_heap, k, row.dist,
                                         Len(scanned) + 1, row)
               /\ scanned' = InsertSorted(scanned, row.dist)
               /\ UNCHANGED <<pc, rtn>>
  /\ UNCHANGED <<thd_killed, pk_index_cond, hdlVars, idxVars, k, ivfVars,
                 polled, opened_after_error>>
  /\ UNCHANGED <<truncated, called, sessions, pureVars>>

(***************************************************************************)
(* The iterator is exhausted: the heap is drained into the result          *)
(* (1296-1309) and the handler positions its cursor (2004-2010, 2037-2042, *)
(* 1965-1971).                                                             *)
(***************************************************************************)
lsm_scan_end ==
  /\ pc = "lsm"
  /\ m_search_result_with_value' = lsm_result(top_k_heap)
  /\ m_vector_db_result_with_value_iter' = 1
  /\ m_vector_db_result_iter' = IF IsKnn THEN 1 ELSE m_vector_db_result_iter
  /\ top_k_heap' = <<>>
  /\ keys_scanned' = 0
  /\ rtn' = HA_EXIT_SUCCESS
  /\ pc' = "open"
  /\ UNCHANGED <<thd_killed, pk_index_cond, qryVars, m_search_result,
                 m_index_scan_result_iter, idxVars, k, scanned, ivfVars,
                 polled, opened_after_error>>
  /\ UNCHANGED <<truncated, called, sessions, pureVars>>

(***************************************************************************)
(* The quantizer's answer to a request for n lists: the ids of the lists   *)
(* nearest to the query vector, nearest first, and -1 in the slots past    *)
(* nlist.  The model numbers the lists by their rank for the query vector. *)
(***************************************************************************)
quantizer_search(n) == [i \in 1..n |-> IF i <= NList THEN i - 1 ELSE -1]

(***************************************************************************)
(* knn_search on an IVF variant up to the scan of the first list: the      *)
(* handler calls knn_search_with_value, which is unsupported, then         *)
(* knn_search (1996-2002); Rdb_vector_index_ivf::knn_search counts the     *)
(* hit, makes the context and starts the library's search (1625-1640),     *)
(* which scans min(nprobe, nlist) lists.                                   *)
(***************************************************************************)
search_begin_ivf_knn ==
  /\ pc = "ready"
  /\ index_type = IVF
  /\ entry_run = "knn_search"
  /\ search_precheck = HA_EXIT_SUCCESS
  /\ search_clear
  /\ m_buffer' = Dim
  /\ m_hit' = m_hit + 1
  /\ f_probe' = quantizer_search(Min(m_nprobe, NList))
  /\ f_idx' = 1
  /\ f_it' = <<>>
  /\ f_ctx' = NewContext
  /\ f_heap' = <<>>
  /\ handed' = <<>>
  /\ skipped' = <<>>
  /\ pc' = "ivf"
  /\ UNCHANGED <<thd_killed, pk_index_cond, rtn, m_search_type, m_limit,
                 m_nprobe, m_weight, m_index_scan_result_iter, index_type,
                 unread, m_list_size_stats, lsmVars, polled,
                 opened_after_error>>
  /\ called' = entries_called(m_search_type, index_type)
  /\ UNCHANGED <<truncated, sessions, pureVars>>

\* Rdb_faiss_inverted_list::get_iterator on the next ranked list: the KV
\* iterator sees the records the list holds
ivf_open_list ==
  /\ pc = "ivf"
  /\ f_it = <<>>
  /\ f_idx <= Len(f_probe)
  /\ \E content \in ListContents(unread, 0..MaxDist) :
       /\ f_it' = <<NewIterator(f_probe[f_idx], content)>>
       /\ unread' = unread \ PksOf(content)
  /\ UNCHANGED <<thd_killed, pk_index_cond, pc, rtn, hdlVars, index_type,
                 m_hit, m_list_size_stats, lsmVars, f_probe, f_idx, f_ctx,
                 f_heap, handed, skipped, polled, opened_after_error>>
  /\ UNCHANGED <<truncated, called, sessions, pureVars>>

\* the library's heap of the k best (distance, id) pairs
faiss_heap_update(heap, kk, dis, id) ==
  IF Len(heap) < kk
  THEN heap_push(heap, PqElement(dis, id, 0))
  ELSE IF dis < heap_top(heap).first
       THEN heap_push(heap_pop(heap), PqElement(dis, id, 0))
       ELSE heap

(***************************************************************************)
(* One round of the library's loop over a list                             *)
(*   for (; it->is_available(); it->next()) { it->get_id_and_codes(); .. } *)
(* the record that is available is handed over, ranked, and passed.        *)
(***************************************************************************)
ivf_scan_step ==
  /\ pc = "ivf"
  /\ f_it # <<>>
  /\ \E a \in {is_available(f_it[1], f_ctx, thd_killed, pk_index_cond)} :
       /\ skipped' = skipped \o PassedPks(f_it[1], a.it)
       /\ IF a.available
          THEN \E g \in {get_id_and_codes(a.it, a.ctx)} :
                 /\ f_ctx' = g.ctx
                 /\ f_heap' = faiss_heap_update(f_heap, m_limit, g.dist, g.id)
                 /\ f_it' = <<iter_next(a.it)>>
                 /\ handed' = Append(handed, Current(a.it).pk)
                 /\ UNCHANGED f_idx
          ELSE /\ f_ctx' = a.ctx
               /\ f_it' = <<>>
               /\ f_idx' = f_idx + 1
               /\ UNCHANGED <<f_heap, handed>>
  /\ UNCHANGED <<thd_killed, pk_index_cond, pc, rtn, hdlVars, idxVars, lsmVars,
                 f_probe, polled, opened_after_error>>
  /\ UNCHANGED <<truncated, called, sessions, pureVars>>

\* variant that overlooks the context's error
context_error_unchecked(ctx) == HA_EXIT_SUCCESS

\* the error Rdb_vector_index_ivf::knn_search finds in the context after the
\* library's search (1641-1643)
context_error(ctx) == ctx.m_error

\* the per-list counters after "update counters" (1650-1652)
RECURSIVE update_counters(_, _)
update_counters(stats, entries) ==
  IF entries = <<>> THEN stats
  ELSE update_counters([stats EXCEPT ![Head(entries)[1]] = Head(entries)[2]],
                       Tail(entries))

(***************************************************************************)
(* The library's search returns: Rdb_vector_index_ivf::knn_search          *)
(* (1641-1653) and the end of the handler's knn_search (2004-2010).        *)
(***************************************************************************)
ivf_search_end ==
  /\ pc = "ivf"
  /\ f_it = <<>>
  /\ f_idx > Len(f_probe)
  /\ IF context_error(f_ctx) # HA_EXIT_SUCCESS
     THEN /\ rtn' = context_error(f_ctx)
          /\ pc' = "failed"
          /\ UNCHANGED <<resVars, m_list_size_stats>>
     ELSE \E p \in {populate_result(f_ctx, lsm_result(f_heap),
                                     m_search_result)} :
            IF p.rtn # HA_EXIT_SUCCESS
            THEN /\ rtn' = p.rtn
                 /\ pc' = "failed"
                 /\ m_search_result' = p.result
                 /\ UNCHANGED <<m_search_result_with_value,
                                m_vector_db_result_iter,
                                m_vector_db_result_with_value_iter,
                                m_index_scan_result_iter, m_list_size_stats>>
            ELSE /\ rtn' = HA_EXIT_SUCCESS
                 /\ pc' = "open"
                 /\ m_search_result' = p.result
                 /\ m_list_size_stats' =
                      update_counters(m_list_size_stats,
                                      f_ctx.m_list_size_stats)
                 /\ m_vector_db_result_iter' = 1
                 /\ m_vector_db_result_with_value_iter' = 1
                 /\ UNCHANGED <<m_search_result_with_value,
                                m_index_scan_result_iter>>
  /\ UNCHANGED <<thd_killed, pk_index_cond, qryVars, index_type, m_hit, unread,
                 lsmVars, ivfVars, polled, opened_after_error>>
  /\ UNCHANGED <<truncated, called, sessions, pureVars>>

(***************************************************************************)
(* The last entry the handler calls answers HA_ERR_UNSUPPORTED and the     *)
(* handler returns it: knn_search_hybrid on an IVF variant (2017-2039),    *)
(* whose index does not implement knn_search_hybrid_with_value.            *)
(***************************************************************************)
search_unsupported ==
  /\ pc = "ready"
  /\ ~index_implements(index_type, entry_run)
  /\ search_precheck = HA_EXIT_SUCCESS
  /\ search_clear
  /\ m_buffer' = Dim
  /\ rtn' = HA_ERR_UNSUPPORTED
  /\ pc' = "failed"
  /\ UNCHANGED <<thd_killed, pk_index_cond, m_search_type, m_limit, m_nprobe,
                 m_weight, m_index_scan_result_iter, idxVars, lsmVars, ivfVars,
                 polled, opened_after_error>>
  /\ called' = entries_called(m_search_type, index_type)
  /\ UNCHANGED <<truncated, sessions, pureVars>>

(***************************************************************************)
(* index_scan on an IVF variant (1949-1971, 1598-1618): the quantizer's    *)
(* answer has nprobe slots, the slots past nlist hold -1.                  *)
(***************************************************************************)
search_ivf_index_scan ==
  /\ pc = "ready"
  /\ index_type = IVF
  /\ entry_run = "index_scan"
  /\ search_precheck = HA_EXIT_SUCCESS
  /\ m_buffer' = Dim
  /\ m_hit' = m_hit + 1
  /\ m_index_scan_result_iter' =
       <<NewListIterator(quantizer_search(m_nprobe))>>
  /\ rtn' = HA_EXIT_SUCCESS
  /\ polled' = "none"
  /\ pc' = "open"
  /\ UNCHANGED <<thd_killed, pk_index_cond, m_search_type, m_limit, m_nprobe,
                 m_weight, m_search_result, m_search_result_with_value,
                 m_vector_db_result_iter, m_vector_db_result_with_value_iter,
                 index_type, unread, m_list_size_stats, lsmVars, ivfVars,
                 opened_after_error>>
  /\ called' = entries_called(m_search_type, index_type)
  /\ UNCHANGED <<truncated, sessions, pureVars>>

(***************************************************************************)
(* The cursor: has_more_results, next_result, current_key.                 *)
(***************************************************************************)
\* the collection the cursor reads from
UsesResult == IsKnn /\ m_search_result # <<>>
UsesResultWithValue ==
  \/ IsKnn /\ m_search_result = <<>>
  \/ ~IsKnn /\ m_search_result_with_value # <<>>
UsesScanIter == ~IsKnn /\ m_search_result_with_value = <<>>

\* the answer of has_more_results() in the current state; on the index-scan
\* iterator the call reads the KV store, and the cursor counts as having more
\* results until a call has answered that it has none
has_more_results ==
  IF UsesResult
  THEN m_vector_db_result_iter # Len(m_search_result) + 1
  ELSE IF UsesResultWithValue
  THEN m_vector_db_result_with_value_iter #
         Len(m_search_result_with_value) + 1
  ELSE m_index_scan_result_iter # <<>> /\ polled # "end"

\* every poll of an exhausted list adds an entry to the context's
\* m_list_size_stats: the model stops polling after MaxEnds entries
ScanPollable ==
  Len(m_index_scan_result_iter[1].m_context.m_list_size_stats) < MaxEnds

(***************************************************************************)
(* Rdb_vector_list_iterator::is_available (936-951) inside the call        *)
(* caller of the handler, has_more_results() or next_result(), from one    *)
(* evaluation of the loop's condition to the next.  When the condition     *)
(* finds no record and the body does not break, the body opens the next    *)
(* list; otherwise the return statement polls the current iterator once    *)
(* more and the handler's call completes: next_result() moves past the     *)
(* record when there is one (194-208).                                     *)
(***************************************************************************)
list_is_available(caller) ==
  \E c \in {current_is_available(m_index_scan_result_iter[1], thd_killed,
                                  pk_index_cond)} :
    IF ~c.available /\ ~list_loop_breaks(c.li)
    THEN \E content \in ListContents(unread, {0}) :
           /\ m_index_scan_result_iter' =
                <<[c.li EXCEPT
                     !.m_current_iterator =
                        <<NewIterator(c.li.m_list_ids[c.li.m_list_id_iter],
                                      content)>>,
                     !.m_list_id_iter = @ + 1]>>
           /\ unread' = unread \ PksOf(content)
           /\ opened_after_error' =
                IF c.li.m_context.m_error # HA_EXIT_SUCCESS
                THEN opened_after_error + 1 ELSE opened_after_error
           /\ pc' = caller
           /\ UNCHANGED polled
    ELSE \E r \in {current_is_available(c.li, thd_killed, pk_index_cond)} :
           /\ m_index_scan_result_iter' =
                <<IF caller = "next_result" /\ r.available
                  THEN [r.li EXCEPT !.m_current_iterator =
                                       <<iter_next(@[1])>>]
                  ELSE r.li>>
           /\ polled' = IF ~r.available THEN "end"
                        ELSE IF caller = "next_result" THEN "none" ELSE "more"
           /\ pc' = "open"
           /\ UNCHANGED <<unread, opened_after_error>>

\* the entry of Rdb_vector_list_iterator::is_available (937)
list_is_available_entry(caller) ==
  IF m_index_scan_result_iter[1].m_error # HA_EXIT_SUCCESS
  THEN /\ polled' = "end"
       /\ UNCHANGED <<pc, m_index_scan_result_iter, unread, opened_after_error>>
  ELSE list_is_available(caller)

\* has_more_results() on the index-scan iterator moves the iterator
has_more_results_scan ==
  /\ pc = "open"
  /\ UsesScanIter
  /\ m_index_scan_result_iter # <<>>
  /\ ScanPollable
  /\ list_is_available_entry("has_more_results")
  /\ UNCHANGED <<thd_killed, pk_index_cond, rtn, qryVars, m_search_result,
                 m_search_result_with_value, m_vector_db_result_iter,
                 m_vector_db_result_with_value_iter, index_type, m_hit,
                 m_list_size_stats, lsmVars, ivfVars>>
  /\ UNCHANGED <<truncated, called, sessions, pureVars>>

\* next_result() on the index-scan iterator
next_result_scan ==
  /\ pc = "open"
  /\ UsesScanIter
  /\ m_index_scan_result_iter # <<>>
  /\ ScanPollable
  /\ list_is_available_entry("next_result")
  /\ UNCHANGED <<thd_killed, pk_index_cond, rtn, qryVars, m_search_result,
                 m_search_result_with_value, m_vector_db_result_iter,
                 m_vector_db_result_with_value_iter, index_type, m_hit,
                 m_list_size_stats, lsmVars, ivfVars>>
  /\ UNCHANGED <<truncated, called, sessions, pureVars>>

\* the call on the index-scan iterator goes on after it opened a list
list_is_available_loop ==
  /\ pc \in {"has_more_results", "next_result"}
  /\ list_is_available(pc)
  /\ UNCHANGED <<thd_killed, pk_index_cond, rtn, qryVars, m_search_result,
                 m_search_result_with_value, m_vector_db_result_iter,
                 m_vector_db_result_with_value_iter, index_type, m_hit,
                 m_list_size_stats, lsmVars, ivfVars>>
  /\ UNCHANGED <<truncated, called, sessions, pureVars>>

\* current_key() on a result collection (2045-2069)
current_key ==
  IF IsKnn /\ m_search_result # <<>>
  THEN m_search_result[m_vector_db_result_iter].key
  ELSE m_search_result_with_value[m_vector_db_result_with_value_iter].key

\* variant of next_result() that moves the cursor without asking
\* has_more_results(), once past the end at most
next_result_unchecked ==
  /\ pc = "open"
  /\ ~UsesScanIter
  /\ IF UsesResult
     THEN /\ m_vector_db_result_iter <= Len(m_search_result) + 1
          /\ m_vector_db_result_iter' = m_vector_db_result_iter + 1
          /\ UNCHANGED m_vector_db_result_with_value_iter
     ELSE /\ m_vector_db_result_with_value_iter <=
               Len(m_search_result_with_value) + 1
          /\ m_vector_db_result_with_value_iter' =
               m_vector_db_result_with_value_iter + 1
          /\ UNCHANGED m_vector_db_result_iter
  /\ UNCHANGED <<thd_killed, pk_index_cond, pc, rtn, qryVars, m_search_result,
                 m_search_result_with_value, m_index_scan_result_iter, idxVars,
                 lsmVars, ivfVars, polled, opened_after_error>>
  /\ UNCHANGED <<truncated, called, sessions, pureVars>>

\* next_result() on a result collection
next_result ==
  /\ pc = "open"
  /\ ~UsesScanIter
  /\ has_more_results
  /\ IF UsesResult
     THEN /\ m_vector_db_result_iter' = m_vector_db_result_iter + 1
          /\ UNCHANGED m_vector_db_result_with_value_iter
     ELSE /\ m_vector_db_result_with_value_iter' =
               m_vector_db_result_with_value_iter + 1
          /\ UNCHANGED m_vector_db_result_iter
  /\ UNCHANGED <<thd_killed, pk_index_cond, pc, rtn, qryVars, m_search_result,
                 m_search_result_with_value, m_index_scan_result_iter, idxVars,
                 lsmVars, ivfVars, polled, opened_after_error>>
  /\ UNCHANGED <<truncated, called, sessions, pureVars>>

\* current_key() on the index-scan iterator, called after has_more_results()
\* answered true: Rdb_vector_list_iterator::get_key keeps the error of a
\* malformed key
current_key_scan ==
  /\ pc = "open"
  /\ UsesScanIter
  /\ m_index_scan_result_iter # <<>>
  /\ polled = "more"
  /\ \E li \in {m_index_scan_result_iter[1]} :
       \E e \in {get_key_and_value(Current(li.m_current_iterator[1]), FALSE)} :
         /\ e # HA_EXIT_SUCCESS
         /\ m_index_scan_result_iter' = <<[li EXCEPT !.m_error = e]>>
         /\ rtn' = e
  /\ UNCHANGED <<thd_killed, pk_index_cond, pc, qryVars, m_search_result,
                 m_search_result_with_value, m_vector_db_result_iter,
                 m_vector_db_result_with_value_iter, idxVars, lsmVars, ivfVars,
                 polled, opened_after_error>>
  /\ UNCHANGED <<truncated, called, sessions, pureVars>>

\* vector_index_orderby_end (272-283), once the cursor has been read to its
\* end or the search has failed
vector_index_orderby_end ==
  /\ \/ pc = "failed"
     \/ pc = "open" /\ ~has_more_results
  /\ m_search_type' = FB_VECTOR_SEARCH_KNN_FIRST
  /\ m_limit' = 0
  /\ m_nprobe' = 0
  /\ m_buffer' = 0
  /\ m_index_scan_result_iter' = <<>>
  /\ pc' = "ended"
  /\ UNCHANGED <<thd_killed, pk_index_cond, rtn, m_weight, m_search_result,
                 m_search_result_with_value, m_vector_db_result_iter,
                 m_vector_db_result_with_value_iter, idxVars, lsmVars, ivfVars,
                 polled, opened_after_error>>
  /\ UNCHANGED <<truncated, called, sessions, pureVars>>

(***************************************************************************)
(* The records of an inverted list at the level of bytes.  A byte is a     *)
(* number in 0..255, a slice or string a sequence of bytes.                *)
(*   key   = index id (4 bytes, big-endian), list id (8 bytes,             *)
(*           big-endian), primary key without its own index id             *)
(*   value = codes alone, or                                               *)
(*           data tag and unpack header, codes, unpack info                *)
(***************************************************************************)
INDEX_NUMBER_SIZE == 4
UINT64_SIZE == 8

\* the n bytes of x, most significant first
RECURSIVE BigEndian(_, _)
BigEndian(x, n) ==
  IF n = 0 THEN <<>> ELSE Append(BigEndian(x \div 256, n - 1), x % 256)

\* the number whose bytes are b, most significant first
RECURSIVE FromBigEndian(_)
FromBigEndian(b) ==
  IF b = <<>> THEN 0
  ELSE FromBigEndian(SubSeq(b, 1, Len(b) - 1)) * 256 + b[Len(b)]

\* size_t is 64 bits wide: a list id is kept as its four 16-bit limbs, most
\* significant first
Limb == 2 ^ 16
to_u64(n) == <<0, 0, n \div Limb, n % Limb>>

\* Rdb_string_writer::write_index_id, write_uint64
write_index_id(index_id) == BigEndian(index_id, INDEX_NUMBER_SIZE)
write_uint64(v) ==
  BigEndian(v[1], 2) \o BigEndian(v[2], 2) \o BigEndian(v[3], 2)
    \o BigEndian(v[4], 2)

\* Rdb_string_reader::read_index_id, read_uint64 on the bytes that remain:
\* failure when fewer than the number's bytes remain
read_number(reader, size) ==
  IF Len(reader) < size
  THEN [failed |-> TRUE, value |-> 0, reader |-> reader]
  ELSE [failed |-> FALSE, value |-> FromBigEndian(SubSeq(reader, 1, size)),
        reader |-> SubSeq(reader, size + 1, Len(reader))]
read_index_id(reader) == read_number(reader, INDEX_NUMBER_SIZE)
read_uint64(reader) ==
  IF Len(reader) < UINT64_SIZE
  THEN [failed |-> TRUE, value |-> to_u64(0), reader |-> reader]
  ELSE [failed |-> FALSE,
        value |-> [i \in 1..4 |->
                     FromBigEndian(SubSeq(reader, 2 * i - 1, 2 * i))],
        reader |-> SubSeq(reader, UINT64_SIZE + 1, Len(reader))]

write_inverted_list_key(index_id, list_id) ==
  write_index_id(index_id) \o write_uint64(list_id)

\* pk is a key of the primary index and starts with that index's id
write_inverted_list_item_key(index_id, list_id, pk) ==
  write_inverted_list_key(index_id, list_id)
    \o SubSeq(pk, INDEX_NUMBER_SIZE + 1, Len(pk))

\* variant that does not compare the list id
read_inverted_list_key_any_list(reader, index_id, list_id) ==
  LET a == read_index_id(reader)
      b == read_uint64(a.reader)
  IN IF a.failed \/ a.value # index_id \/ b.failed
     THEN [rtn |-> HA_ERR_ROCKSDB_CORRUPT_DATA, reader |-> reader]
     ELSE [rtn |-> HA_EXIT_SUCCESS, reader |-> b.reader]

\* read and verify the key prefix: the return value and the bytes that
\* remain to be read
read_inverted_list_key(reader, index_id, list_id) ==
  LET a == read_index_id(reader)
      b == read_uint64(a.reader)
  IN IF a.failed THEN [rtn |-> HA_ERR_ROCKSDB_CORRUPT_DATA, reader |-> reader]
     ELSE IF a.value # index_id
     THEN [rtn |-> HA_ERR_ROCKSDB_CORRUPT_DATA, reader |-> a.reader]
     ELSE IF b.failed
     THEN [rtn |-> HA_ERR_ROCKSDB_CORRUPT_DATA, reader |-> a.reader]
     ELSE IF b.value # list_id
     THEN [rtn |-> HA_ERR_ROCKSDB_CORRUPT_DATA, reader |-> b.reader]
     ELSE [rtn |-> HA_EXIT_SUCCESS, reader |-> b.reader]

\* the first part of get_key_and_value and of get_key_and_codes: the key is
\* verified and copied
copy_key(key_slice, index_id, list_id) ==
  LET r == read_inverted_list_key(key_slice, index_id, to_u64(list_id))
  IN IF r.rtn # HA_EXIT_SUCCESS THEN [rtn |-> r.rtn, key |-> <<>>]
     ELSE IF Len(r.reader) = 0
     THEN [rtn |-> HA_ERR_ROCKSDB_CORRUPT_DATA, key |-> <<>>]
     ELSE [rtn |-> HA_EXIT_SUCCESS, key |-> key_slice]

(***************************************************************************)
(* size_t and unsigned long are 64 bits wide.  A 64-bit unsigned number is *)
(* kept as its four 16-bit limbs, most significant first, so that a        *)
(* difference wraps as the machine's does.                                 *)
(***************************************************************************)
RECURSIVE sub_limbs(_, _, _, _)
sub_limbs(a, b, i, borrow) ==
  IF i = 0 THEN <<>>
  ELSE LET d == a[i] - b[i] - borrow
       IN Append(sub_limbs(a, b, i - 1, IF d < 0 THEN 1 ELSE 0),
                 IF d < 0 THEN d + Limb ELSE d)

\* a - b in unsigned 64-bit arithmetic
sub_u64(a, b) == sub_limbs(a, b, 4, 0)

RECURSIVE less_limbs(_, _, _)
less_limbs(a, b, i) ==
  IF i > 4 THEN FALSE
  ELSE IF a[i] # b[i] THEN a[i] < b[i]
  ELSE less_limbs(a, b, i + 1)

less_u64(a, b) == less_limbs(a, b, 1)

\* conversion of a 64-bit unsigned number to int: its low 32 bits, in two's
\* complement
to_int(u) ==
  IF u[3] >= Limb \div 2 THEN (u[3] - Limb) * Limb + u[4]
  ELSE u[3] * Limb + u[4]

\* std::string::max_size() is below 2^63
exceeds_max_size(u) == u[1] >= Limb \div 2

\* Rdb_key_def::is_unpack_data_tag, get_unpack_header_size
RDB_UNPACK_DATA_TAG == 2
RDB_UNPACK_COVERED_DATA_TAG == 3
RDB_UNPACK_HEADER_SIZE == 3
RDB_UNPACK_COVERED_HEADER_SIZE == 5
is_unpack_data_tag(tag) ==
  tag \in {RDB_UNPACK_DATA_TAG, RDB_UNPACK_COVERED_DATA_TAG}
get_unpack_header_size(tag) ==
  IF tag = RDB_UNPACK_DATA_TAG THEN RDB_UNPACK_HEADER_SIZE
  ELSE RDB_UNPACK_COVERED_HEADER_SIZE

\* what a call can end with besides a return value
STD_LENGTH_ERROR == "std::length_error"

\* slice.data()[0]: the first byte of the slice; the byte behind an empty
\* slice is whatever the buffer holds there, a data tag or another byte (9)
data_0(slice) ==
  IF slice = <<>>
  THEN {RDB_UNPACK_DATA_TAG, RDB_UNPACK_COVERED_DATA_TAG, 9}
  ELSE {slice[1]}

\* the second part of get_key_and_value (791-829) for a first byte of the
\* value: the value without the codes
value_without_codes(value_slice, m_code_size, tag) ==
  LET value_bytes == sub_u64(to_u64(Len(value_slice)), to_u64(m_code_size))
      header_size == get_unpack_header_size(tag)
      n == to_int(value_bytes)
  IN IF value_bytes = to_u64(0)
     THEN [rtn |-> HA_EXIT_SUCCESS, value |-> <<>>]
     ELSE IF ~is_unpack_data_tag(tag)
     THEN [rtn |-> HA_ERR_ROCKSDB_CORRUPT_DATA, value |-> <<>>]
     ELSE IF less_u64(value_bytes, to_u64(header_size))
     THEN [rtn |-> HA_ERR_ROCKSDB_CORRUPT_DATA, value |-> <<>>]
     ELSE IF exceeds_max_size(value_bytes)
     THEN [rtn |-> STD_LENGTH_ERROR, value |-> <<>>]
     ELSE [rtn |-> HA_EXIT_SUCCESS,
           value |-> SubSeq(value_slice, 1, header_size)
                       \o [i \in 1..(n - header_size) |->
                             value_slice[header_size + i + m_code_size]]]

\* Rdb_vector_iterator::get_key_and_value on a record of the iterator of
\* list m_list_id of index m_index_id: the outcomes the call can have
key_and_value(key_slice, value_slice, need_value, m_index_id, m_list_id, m_code_size) ==
  LET c == copy_key(key_slice, m_index_id, m_list_id)
      with(v) == [rtn |-> v.rtn,
                  key |-> IF v.rtn = HA_EXIT_SUCCESS THEN c.key ELSE <<>>,
                  value |-> v.value]
  IN IF c.rtn # HA_EXIT_SUCCESS
     THEN {[rtn |-> c.rtn, key |-> <<>>, value |-> <<>>]}
     ELSE IF ~need_value
     THEN {[rtn |-> HA_EXIT_SUCCESS, key |-> c.key, value |-> <<>>]}
     ELSE {with(value_without_codes(value_slice, m_code_size, tag)) :
             tag \in data_0(value_slice)}

\* variant that takes the codes from the start of the value
codes_of_from_start(value, m_code_size) ==
  LET extra_bytes == to_int(sub_u64(to_u64(Len(value)), to_u64(m_code_size)))
      header_size == get_unpack_header_size(value[1])
  IN IF extra_bytes < 0
     THEN [rtn |-> HA_ERR_ROCKSDB_CORRUPT_DATA, value |-> <<>>]
     ELSE IF extra_bytes = 0
     THEN [rtn |-> HA_EXIT_SUCCESS, value |-> value]
     ELSE IF ~is_unpack_data_tag(value[1])
     THEN [rtn |-> HA_ERR_ROCKSDB_CORRUPT_DATA, value |-> <<>>]
     ELSE IF extra_bytes < header_size
     THEN [rtn |-> HA_ERR_ROCKSDB_CORRUPT_DATA, value |-> <<>>]
     ELSE [rtn |-> HA_EXIT_SUCCESS, value |-> SubSeq(value, 1, m_code_size)]

\* the second part of get_key_and_codes (855-887): the codes
codes_of(value, m_code_size) ==
  LET extra_bytes == to_int(sub_u64(to_u64(Len(value)), to_u64(m_code_size)))
      header_size == get_unpack_header_size(value[1])
  IN IF extra_bytes < 0
     THEN [rtn |-> HA_ERR_ROCKSDB_CORRUPT_DATA, value |-> <<>>]
     ELSE IF extra_bytes = 0
     THEN [rtn |-> HA_EXIT_SUCCESS, value |-> value]
     ELSE IF ~is_unpack_data_tag(value[1])
     THEN [rtn |-> HA_ERR_ROCKSDB_CORRUPT_DATA, value |-> <<>>]
     ELSE IF extra_bytes < header_size
     THEN [rtn |-> HA_ERR_ROCKSDB_CORRUPT_DATA, value |-> <<>>]
     ELSE [rtn |-> HA_EXIT_SUCCESS,
           value |-> SubSeq(value, header_size + 1,
                            Len(value) - (extra_bytes - header_size))]

\* Rdb_vector_iterator::get_key_and_codes on a record
key_and_codes(key_slice, value, m_index_id, m_list_id, m_code_size) ==
  LET c == copy_key(key_slice, m_index_id, m_list_id)
      with(v) == [rtn |-> v.rtn,
                  key |-> IF v.rtn = HA_EXIT_SUCCESS THEN c.key ELSE <<>>,
                  value |-> v.value]
  IN IF c.rtn # HA_EXIT_SUCCESS
     THEN {[rtn |-> c.rtn, key |-> <<>>, value |-> <<>>]}
     ELSE {with(codes_of(value, m_code_size))}

(***************************************************************************)
(* The records the two functions are studied on: the keys are the keys     *)
(* written for an index and a list and what remains of them when their     *)
(* end is cut off; the values start with a data tag or another byte.       *)
(***************************************************************************)
MaxSuffix == 1
MaxValue == 7
MaxCode == 2

KeyIds == {1, 256}

RECURSIVE ByteStrings(_, _)
ByteStrings(bytes, n) ==
  IF n = 0 THEN {<<>>}
  ELSE LET shorter == ByteStrings(bytes, n - 1)
       IN shorter \cup {Append(s, b) : s \in shorter, b \in bytes}

\* the primary index has an id of its own
WrittenKeys ==
  {write_inverted_list_item_key(i, to_u64(l), write_index_id(i + 1) \o s) :
     i \in KeyIds, l \in KeyIds, s \in ByteStrings({0, 255}, MaxSuffix) \ {<<>>}}

\* a key as written, or cut short
KeySlices ==
  UNION {{SubSeq(w, 1, n) : n \in 0..Len(w)} : w \in WrittenKeys}

ValueSlices ==
  {<<>>} \cup
  {[i \in 1..n |-> IF i = 1 THEN t ELSE 16 + i] :
     n \in 1..MaxValue,
     t \in {RDB_UNPACK_DATA_TAG, RDB_UNPACK_COVERED_DATA_TAG, 9}}

RecordArgs(keys, values) ==
  [fn : {"get_key_and_codes"}, need_value : {TRUE},
   key : keys, value : values,
   m_index_id : KeyIds, m_list_id : KeyIds, m_code_size : 1..MaxCode]
  \cup
  [fn : {"get_key_and_value"}, need_value : BOOLEAN,
   key : keys, value : values,
   m_index_id : KeyIds, m_list_id : KeyIds, m_code_size : 1..MaxCode]

InitRecord ==
  /\ InitHandler
  /\ index_type = IVF
  /\ unread = {}
  /\ arg \in RecordArgs(KeySlices, ValueSlices)
  /\ ret = NotCalled

\* the iterator is asked for its current record
call_record ==
  /\ arg.fn \in {"get_key_and_codes", "get_key_and_value"}
  /\ ret = NotCalled
  /\ ret' \in IF arg.fn = "get_key_and_codes"
              THEN key_and_codes(arg.key, arg.value, arg.m_index_id,
                                 arg.m_list_id, arg.m_code_size)
              ELSE key_and_value(arg.key, arg.value, arg.need_value,
                                 arg.m_index_id, arg.m_list_id,
                                 arg.m_code_size)
  /\ UNCHANGED <<thd_killed, pk_index_cond, pc, rtn, hdlVars, idxVars, lsmVars,
                 ivfVars, polled, opened_after_error, truncated, called, sessions,
                 arg>>

(***************************************************************************)
(* The row decoder.  A layout is the table's configuration                 *)
(*   table_config = [has_ttl, null_bytes_length]                           *)
(* and field_info_list, a sequence of                                      *)
(*   [type, length_bytes, pack_length, is_nullable];                       *)
(* fields are numbered from 0 as in the code.  A slice of the row is       *)
(* [pos, size]: size bytes from offset pos of the row.                     *)
(***************************************************************************)
MYSQL_TYPE_VARCHAR == "VARCHAR"
MYSQL_TYPE_BLOB == "BLOB"
MYSQL_TYPE_JSON == "JSON"
MYSQL_TYPE_GEOMETRY == "GEOMETRY"

TTL_BYTES == 8
BITS_PER_BYTE == 8

EmptySlice == [pos |-> 0, size |-> 0]
slice_bytes(value, s) == SubSeq(value, s.pos + 1, s.pos + s.size)

\* the number whose bytes are b, least significant first
RECURSIVE LittleEndian(_)
LittleEndian(b) ==
  IF b = <<>> THEN 0 ELSE b[1] + 256 * LittleEndian(Tail(b))

\* the n bytes of x, least significant first
RECURSIVE ToLittleEndian(_, _)
ToLittleEndian(x, n) ==
  IF n = 0 THEN <<>> ELSE <<x % 256>> \o ToLittleEndian(x \div 256, n - 1)

\* the byte at offset at of the row's buffer; behind the row the buffer
\* holds the byte stray
byte_at(value, at, stray) == IF at < Len(value) THEN value[at + 1] ELSE stray

\* bit (i % 8) of a byte
bit_of(byte, i) == (byte \div (2 ^ (i % BITS_PER_BYTE))) % 2 = 1

\* the output vector with the slice of field i stored where the map from
\* field index to result position points: at the last position of
\* field_indexs that names i, if any
store_target(field_values, field_indexs, i, slice) ==
  LET at == {j \in DOMAIN field_indexs : field_indexs[j] = i}
      index_to_result_pos == CHOOSE j \in at : \A j2 \in at : j2 <= j
  IN IF at = {} THEN field_values
     ELSE [field_values EXCEPT ![index_to_result_pos] = slice]

\* the length prefix of a variable-length field at offset pos (152-153,
\* 175-176)
read_length(field_info, value, pos) ==
  IF field_info.type = MYSQL_TYPE_VARCHAR
  THEN IF field_info.length_bytes = 1 THEN value[pos + 1]
       ELSE LittleEndian(SubSeq(value, pos + 1, pos + 2))
  ELSE LittleEndian(SubSeq(value, pos + 1, pos + field_info.length_bytes))

is_variable(field_info) ==
  field_info.type \in {MYSQL_TYPE_VARCHAR, MYSQL_TYPE_BLOB, MYSQL_TYPE_JSON,
                       MYSQL_TYPE_GEOMETRY}

\* the loop over the fields 0..max_field_index (126-207) from field i on;
\* st = [pos, out]: the offset of the cursor and the output vector;
\* null_bytes is the offset of the null bitmap, -1 for nullptr
RECURSIVE decode_loop(_, _, _, _, _, _, _, _)
decode_loop(field_info_list, field_indexs, value, null_bytes, stray, max_field_index, st, i) ==
  IF i > max_field_index THEN [rtn |-> HA_EXIT_SUCCESS, field_values |-> st.out]
  ELSE LET field_info == field_info_list[i + 1]
           remaining == Len(value) - st.pos
           is_null ==
             /\ field_info.is_nullable
             /\ null_bytes >= 0
             /\ bit_of(byte_at(value, null_bytes + i \div BITS_PER_BYTE,
                               stray), i)
           corrupt == [rtn |-> HA_ERR_ROCKSDB_CORRUPT_DATA,
                       field_values |-> st.out]
           take(start, len) ==
             decode_loop(field_info_list, field_indexs, value, null_bytes,
                         stray, max_field_index,
                         [pos |-> start + len,
                          out |-> store_target(st.out, field_indexs, i,
                                               [pos |-> start, size |-> len])],
                         i + 1)
           variable(len) ==
             IF remaining - field_info.length_bytes < len THEN corrupt
             ELSE take(st.pos + field_info.length_bytes, len)
       IN IF is_null
          THEN decode_loop(field_info_list, field_indexs, value, null_bytes,
                           stray, max_field_index,
                           [pos |-> st.pos,
                            out |-> store_target(st.out, field_indexs, i,
                                                 EmptySlice)],
                           i + 1)
          ELSE IF is_variable(field_info)
          THEN IF remaining < field_info.length_bytes THEN corrupt
               ELSE variable(read_length(field_info, value, st.pos))
          ELSE IF remaining < field_info.pack_length THEN corrupt
               ELSE take(st.pos, field_info.pack_length)

RECURSIVE SeqMax(_)
SeqMax(s) ==
  IF s = <<>> THEN 0
  ELSE LET m == SeqMax(Tail(s)) IN IF Head(s) > m THEN Head(s) ELSE m

\* DecodeFieldFromValue: the return value and the output vector
DecodeFieldFromValue(table_config, field_info_list, field_indexs, value, stray) ==
  LET ttl == IF table_config.has_ttl THEN TTL_BYTES ELSE 0
      null_bytes == IF table_config.null_bytes_length > 0 THEN ttl ELSE -1
      start == ttl + table_config.null_bytes_length
      corrupt == [rtn |-> HA_ERR_ROCKSDB_CORRUPT_DATA, field_values |-> <<>>]
  IN IF table_config.has_ttl /\ Len(value) < TTL_BYTES THEN corrupt
     ELSE IF Len(value) - ttl < table_config.null_bytes_length THEN corrupt
     ELSE IF field_indexs = <<>>
     THEN [rtn |-> HA_EXIT_SUCCESS, field_values |-> <<>>]
     ELSE IF \E j \in DOMAIN field_indexs :
               field_indexs[j] >= Len(field_info_list)
     THEN corrupt
     ELSE decode_loop(field_info_list, field_indexs, value, null_bytes, stray,
                      SeqMax(field_indexs),
                      [pos |-> start,
                       out |-> [j \in DOMAIN field_indexs |-> EmptySlice]],
                      0)

(***************************************************************************)
(* The rows the decoder is studied on.  A value tuple holds, per field,    *)
(* [null, bytes].  encode_row writes a row as the layout prescribes: the   *)
(* TTL, the null bitmap of (nullable fields + 7) / 8 bytes in which bit i  *)
(* stands for field i, then the fields that are not NULL, a                *)
(* variable-length one behind its little-endian length.                    *)
(***************************************************************************)
MaxFields == 2

MYSQL_TYPE_SHORT == "SHORT"
MYSQL_TYPE_TINY == "TINY"

FieldInfo(type, length_bytes, pack_length, is_nullable) ==
  [type |-> type, length_bytes |-> length_bytes, pack_length |-> pack_length,
   is_nullable |-> is_nullable]

FieldInfos ==
  {FieldInfo(MYSQL_TYPE_VARCHAR, 1, 0, FALSE),
   FieldInfo(MYSQL_TYPE_VARCHAR, 2, 0, TRUE),
   FieldInfo(MYSQL_TYPE_BLOB, 3, 0, FALSE),
   FieldInfo(MYSQL_TYPE_GEOMETRY, 4, 0, TRUE),
   FieldInfo(MYSQL_TYPE_SHORT, 0, 2, FALSE),
   FieldInfo(MYSQL_TYPE_SHORT, 0, 2, TRUE)}

Null == [null |-> TRUE, bytes |-> <<>>]
Bytes(b) == [null |-> FALSE, bytes |-> b]

\* the values a field can hold
ValuesOf(field_info) ==
  (IF is_variable(field_info) THEN {Bytes(<<>>), Bytes(<<1>>)}
   ELSE {Bytes([i \in 1..field_info.pack_length |-> i])})
  \cup (IF field_info.is_nullable THEN {Null} ELSE {})

NullableCount(field_info_list) ==
  Cardinality({i \in DOMAIN field_info_list : field_info_list[i].is_nullable})

TableConfig(has_ttl, field_info_list) ==
  [has_ttl |-> has_ttl,
   null_bytes_length |->
     (NullableCount(field_info_list) + BITS_PER_BYTE - 1) \div BITS_PER_BYTE]

\* the byte of the bitmap that holds the bits of the fields 8 * b .. 8 * b + 7
RECURSIVE null_byte(_, _, _)
null_byte(values, b, i) ==
  IF i = BITS_PER_BYTE THEN 0
  ELSE LET field == BITS_PER_BYTE * b + i
           rest == null_byte(values, b, i + 1)
       IN IF field < Len(values) /\ values[field + 1].null
          THEN 2 ^ i + rest
          ELSE rest

encode_field(field_info, v) ==
  IF v.null THEN <<>>
  ELSE IF is_variable(field_info)
  THEN ToLittleEndian(Len(v.bytes), field_info.length_bytes) \o v.bytes
  ELSE v.bytes

RECURSIVE encode_fields(_, _)
encode_fields(field_info_list, values) ==
  IF field_info_list = <<>> THEN <<>>
  ELSE encode_field(Head(field_info_list), Head(values))
         \o encode_fields(Tail(field_info_list), Tail(values))

encode_row(table_config, field_info_list, values) ==
  (IF table_config.has_ttl THEN [i \in 1..TTL_BYTES |-> 255] ELSE <<>>)
    \o [b \in 1..table_config.null_bytes_length |-> null_byte(values, b - 1, 0)]
    \o encode_fields(field_info_list, values)

\* a layout of n fields with a value tuple: [field_info_list, values]
RECURSIVE Tables(_)
Tables(n) ==
  IF n = 0 THEN {[field_info_list |-> <<>>, values |-> <<>>]}
  ELSE LET more(t, f) ==
             {[field_info_list |-> Append(t.field_info_list, f),
               values |-> Append(t.values, v)] : v \in ValuesOf(f)}
       IN UNION {more(t, f) : t \in Tables(n - 1), f \in FieldInfos}

\* a table of more than eight columns: eight one-byte columns that are
\* never NULL, the first holding 0 or 1, and one nullable column that holds
\* a value
WideTables ==
  LET tiny == FieldInfo(MYSQL_TYPE_TINY, 0, 1, FALSE)
      nullable == {f \in FieldInfos : f.is_nullable}
      wide(first, f, v) ==
        [field_info_list |-> [i \in 1..BITS_PER_BYTE |-> tiny] \o <<f>>,
         values |-> <<Bytes(<<first>>)>>
                      \o [i \in 1..(BITS_PER_BYTE - 1) |-> Bytes(<<0>>)] \o <<v>>]
  IN UNION {{wide(first, f, v) : v \in ValuesOf(f) \ {Null}} :
              first \in {0, 1}, f \in nullable}

AllIndexes(n) == [j \in 1..n |-> j - 1]

\* the lists of field indexes asked for on a layout of n fields: none, one
\* index or two, also the index behind the layout, and all of them in order
IndexLists(n) ==
  {<<>>, AllIndexes(n)} \cup {<<a>> : a \in 0..n}
    \cup {<<a, b>> : a \in 0..n, b \in 0..n}

\* on a row whose end is cut off: one index of the layout, or all
CutIndexLists(n) == {AllIndexes(n)} \cup {<<a>> : a \in 0..(n - 1)}

RowArg(t, has_ttl, field_indexs, cut) ==
  LET table_config == TableConfig(has_ttl, t.field_info_list)
      row == encode_row(table_config, t.field_info_list, t.values)
  IN [fn |-> "DecodeFieldFromValue", table_config |-> table_config,
      field_info_list |-> t.field_info_list, values |-> t.values,
      field_indexs |-> field_indexs,
      value |-> SubSeq(row, 1, Len(row) - cut), cut |-> cut]

EncodedLen(t, has_ttl) ==
  Len(encode_row(TableConfig(has_ttl, t.field_info_list), t.field_info_list,
                 t.values))

RowArgsOf(t, has_ttl) ==
  LET n == Len(t.field_info_list)
  IN {RowArg(t, has_ttl, l, 0) : l \in IndexLists(n)}
       \cup {RowArg(t, has_ttl, l, cut) :
               l \in CutIndexLists(n), cut \in 1..EncodedLen(t, has_ttl)}

\* the calls on the layouts of max_fields fields at most and on the wide ones
RowArgs(max_fields) ==
  UNION {RowArgsOf(t, has_ttl) :
           t \in WideTables \cup UNION {Tables(n) : n \in 1..max_fields},
           has_ttl \in BOOLEAN}

InitRow ==
  /\ InitHandler
  /\ index_type = LSMIDX
  /\ unread = {}
  /\ arg \in RowArgs(MaxFields)
  /\ ret = NotCalled

\* the LSM scan projects fields out of a row
call_decode ==
  /\ arg.fn = "DecodeFieldFromValue"
  /\ ret = NotCalled
  /\ \E stray \in {0, 255} :
       ret' = DecodeFieldFromValue(arg.table_config, arg.field_info_list,
                                   arg.field_indexs, arg.value, stray)
  /\ UNCHANGED <<thd_killed, pk_index_cond, pc, rtn, hdlVars, idxVars, lsmVars,
                 ivfVars, polled, opened_after_error, truncated, called, sessions,
                 arg>>

(***************************************************************************)
(* The JSON-binary array decoder ExtractVectorFromJson<T>.  T is "bool",   *)
(* "int" (an integral type), "float" or "string"; a decoded number is the  *)
(* integer it denotes, a decoded string its bytes.                         *)
(***************************************************************************)
JSONB_SMALL_ARRAY == 2
JSONB_LARGE_ARRAY == 3
JSONB_LITERAL == 4
JSONB_INT16 == 5
JSONB_UINT16 == 6
JSONB_INT32 == 7
JSONB_UINT32 == 8
JSONB_INT64 == 9
JSONB_UINT64 == 10
JSONB_DOUBLE == 11
JSONB_STRING == 12
JSONB_OPAQUE == 15

JSONB_TRUE_LITERAL == 1
JSONB_FALSE_LITERAL == 2

Ts == {"bool", "int", "float", "string"}
is_integral(T) == T \in {"bool", "int"}
is_arithmetic(T) == T \in {"bool", "int", "float"}

\* static_cast<T>(val) of a number
static_cast(T, val) == IF T = "bool" THEN val # 0 ELSE val

\* the doubles of the model and their eight bytes, as memcpy finds them
DoubleValues == {-1, 0, 1, 2}
DoubleBytes(x) ==
  IF x = 0 THEN <<0, 0, 0, 0, 0, 0, 0, 0>>
  ELSE IF x = 1 THEN <<0, 0, 0, 0, 0, 0, 240, 63>>
  ELSE IF x = 2 THEN <<0, 0, 0, 0, 0, 0, 0, 64>>
  ELSE <<0, 0, 0, 0, 0, 0, 240, 191>>
double_of(bytes) ==
  IF \E x \in DoubleValues : DoubleBytes(x) = bytes
  THEN CHOOSE x \in DoubleValues : DoubleBytes(x) = bytes
  ELSE 0

\* a little-endian number read as a signed one (two's complement)
signed_of(bytes) ==
  IF bytes[Len(bytes)] < 128 THEN LittleEndian(bytes)
  ELSE -(LittleEndian([j \in DOMAIN bytes |-> 255 - bytes[j]]) + 1)

\* data[at .. at + n - 1], with the byte stray where the container has ended
data_bytes(data, at, n, stray) == [j \in 1..n |-> byte_at(data, at + j - 1, stray)]

\* the length of a string (484-498): [ok, str_length, pos] after the varint
\* at pos
RECURSIVE read_varint(_, _, _, _)
read_varint(data, pos, bytes_read, str_length) ==
  IF pos >= Len(data) THEN [ok |-> FALSE, str_length |-> 0, pos |-> pos]
  ELSE LET byte == data[pos + 1]
           len == str_length + (byte % 128) * 128 ^ bytes_read
       IN IF byte < 128 \/ bytes_read + 1 >= 5
          THEN [ok |-> TRUE, str_length |-> len, pos |-> pos + 1]
          ELSE read_varint(data, pos + 1, bytes_read + 1, len)

\* variant that takes a non-inlined value from the offset itself
value_position_relative(offset) == offset

\* the absolute position of a non-inlined value (331, 335)
value_position(offset) == offset + 1

\* the switch on value_type (346-516) for one element: [rtn, val, read_past];
\* field holds the bytes of the entry's offset field, value_offset the
\* position of a value that is not inlined
extract_value(T, data, value_type, inlined, field, value_offset, stray) ==
  LET length == Len(data)
      corrupt == [rtn |-> HA_ERR_ROCKSDB_CORRUPT_DATA, val |-> 0,
                  read_past |-> FALSE]
      ok(v) == [rtn |-> HA_EXIT_SUCCESS, val |-> v, read_past |-> FALSE]
      lit_val == field[1]
      four == data_bytes(data, value_offset, 4, stray)
      eight == SubSeq(data, value_offset + 1, value_offset + 8)
      string(v) ==
        IF ~v.ok THEN corrupt
        ELSE IF v.pos + v.str_length > length THEN corrupt
        ELSE ok(SubSeq(data, v.pos + 1, v.pos + v.str_length))
  IN IF value_type = JSONB_LITERAL
     THEN IF T = "bool"
          THEN IF lit_val = JSONB_TRUE_LITERAL THEN ok(TRUE)
               ELSE IF lit_val = JSONB_FALSE_LITERAL THEN ok(FALSE)
               ELSE corrupt
          ELSE IF is_integral(T)
          THEN ok(IF lit_val = JSONB_TRUE_LITERAL THEN 1 ELSE 0)
          ELSE corrupt
     ELSE IF value_type = JSONB_STRING
     THEN IF T = "string" THEN string(read_varint(data, value_offset, 0, 0))
          ELSE corrupt
     ELSE IF value_type \notin JSONB_INT16..JSONB_DOUBLE \/ ~is_arithmetic(T)
     THEN corrupt
     ELSE IF value_type = JSONB_INT16
     THEN ok(static_cast(T, signed_of(SubSeq(field, 1, 2))))
     ELSE IF value_type = JSONB_UINT16
     THEN ok(static_cast(T, LittleEndian(SubSeq(field, 1, 2))))
     ELSE IF value_type \in {JSONB_INT32, JSONB_UINT32}
     THEN IF inlined
          THEN ok(static_cast(T, IF value_type = JSONB_INT32
                                 THEN signed_of(field)
                                 ELSE LittleEndian(field)))
          ELSE [rtn |-> HA_EXIT_SUCCESS,
                val |-> static_cast(T, IF value_type = JSONB_INT32
                                       THEN signed_of(four)
                                       ELSE LittleEndian(four)),
                read_past |-> value_offset + 4 > length]
     ELSE IF value_offset + 8 > length THEN corrupt
     ELSE IF value_type = JSONB_INT64 THEN ok(static_cast(T, signed_of(eight)))
     ELSE IF value_type = JSONB_UINT64
     THEN ok(static_cast(T, LittleEndian(eight)))
     ELSE ok(static_cast(T, double_of(eight)))

\* the loop over the elements (292-518) from element i on, acc = [result,
\* read_past]
RECURSIVE extract_loop(_, _, _, _, _, _, _)
extract_loop(T, data, large_format, element_count, stray, acc, i) ==
  LET length == Len(data)
      offset_size == IF large_format THEN 4 ELSE 2
      value_entry_size == 1 + offset_size
      entry_pos == 1 + 2 * offset_size + i * value_entry_size
      value_type == data[entry_pos + 1]
      inlined ==
        \/ value_type \in {JSONB_LITERAL, JSONB_INT16, JSONB_UINT16}
        \/ value_type \in {JSONB_INT32, JSONB_UINT32} /\ large_format
      field == SubSeq(data, entry_pos + 2, entry_pos + 1 + offset_size)
      value_offset == IF inlined THEN 0
                      ELSE value_position(LittleEndian(field))
      corrupt == [rtn |-> HA_ERR_ROCKSDB_CORRUPT_DATA, result |-> acc.result,
                  read_past |-> acc.read_past]
      next(e) ==
        IF e.rtn # HA_EXIT_SUCCESS THEN corrupt
        ELSE extract_loop(T, data, large_format, element_count, stray,
                          [result |-> Append(acc.result, e.val),
                           read_past |-> acc.read_past \/ e.read_past],
                          i + 1)
  IN IF i >= element_count
     THEN [rtn |-> HA_EXIT_SUCCESS, result |-> acc.result,
           read_past |-> acc.read_past]
     ELSE IF entry_pos + value_entry_size > length THEN corrupt
     ELSE IF ~inlined /\ value_offset >= length THEN corrupt
     ELSE next(extract_value(T, data, value_type, inlined, field,
                             value_offset, stray))

\* ExtractVectorFromJson<T>: the return value, the result vector and whether
\* a byte behind the container was read
ExtractVectorFromJson(T, json_binary, stray) ==
  LET corrupt == [rtn |-> HA_ERR_ROCKSDB_CORRUPT_DATA, result |-> <<>>,
                  read_past |-> FALSE]
      type == json_binary[1]
      large_format == type = JSONB_LARGE_ARRAY
      offset_size == IF large_format THEN 4 ELSE 2
  IN IF Len(json_binary) < 1 THEN corrupt
     ELSE IF type \notin {JSONB_SMALL_ARRAY, JSONB_LARGE_ARRAY} THEN corrupt
     ELSE IF Len(json_binary) < 1 + 2 * offset_size THEN corrupt
     ELSE extract_loop(T, json_binary, large_format,
                       LittleEndian(SubSeq(json_binary, 2, 1 + offset_size)),
                       stray, [result |-> <<>>, read_past |-> FALSE], 0)

(***************************************************************************)
(* The containers the decoder is studied on.  An element is [type, v]: v   *)
(* is the code of a literal, the number a numeric element denotes, or the  *)
(* bytes of a string.  encode_array writes the elements as a JSON-binary   *)
(* array: type, element count, size, one entry per element, then the       *)
(* values that are not inlined, each at the offset (counted from the byte  *)
(* behind the type byte) its entry names.                                  *)
(***************************************************************************)
MaxElems == 2
MaxCutElems == 1

Element(type, v) == [type |-> type, v |-> v]

Elements ==
  {Element(JSONB_LITERAL, JSONB_TRUE_LITERAL),
   Element(JSONB_LITERAL, JSONB_FALSE_LITERAL),
   Element(JSONB_LITERAL, 0),
   Element(JSONB_INT16, -1),
   Element(JSONB_UINT16, 3),
   Element(JSONB_INT32, 70000),
   Element(JSONB_UINT32, 70001),
   Element(JSONB_INT64, 5),
   Element(JSONB_UINT64, 6),
   Element(JSONB_DOUBLE, 1),
   Element(JSONB_STRING, <<97>>),
   Element(JSONB_OPAQUE, <<98>>)}

\* the n bytes of a signed number, least significant first
signed_bytes(v, n) ==
  IF v >= 0 THEN ToLittleEndian(v, n)
  ELSE [j \in 1..n |-> 255 - ToLittleEndian(-v - 1, n)[j]]

is_inlined(type, large_format) ==
  \/ type \in {JSONB_LITERAL, JSONB_INT16, JSONB_UINT16}
  \/ type \in {JSONB_INT32, JSONB_UINT32} /\ large_format

\* the bytes of an element that is stored behind the entries
stored_value(e) ==
  IF e.type \in {JSONB_INT32, JSONB_UINT32} THEN signed_bytes(e.v, 4)
  ELSE IF e.type \in {JSONB_INT64, JSONB_UINT64} THEN signed_bytes(e.v, 8)
  ELSE IF e.type = JSONB_DOUBLE THEN DoubleBytes(e.v)
  ELSE <<Len(e.v)>> \o e.v

\* the entries and the stored values of the elements from xs[i] on; at is
\* the offset of the next stored value
RECURSIVE encode_elements(_, _, _, _)
encode_elements(xs, large_format, i, at) ==
  LET offset_size == IF large_format THEN 4 ELSE 2
      e == xs[i]
      inlined == is_inlined(e.type, large_format)
      stored == IF inlined THEN <<>> ELSE stored_value(e)
      rest == encode_elements(xs, large_format, i + 1, at + Len(stored))
      entry == <<e.type>> \o (IF inlined THEN signed_bytes(e.v, offset_size)
                              ELSE ToLittleEndian(at, offset_size))
  IN IF i > Len(xs) THEN [entries |-> <<>>, values |-> <<>>]
     ELSE [entries |-> entry \o rest.entries, values |-> stored \o rest.values]

encode_array(xs, large_format) ==
  LET offset_size == IF large_format THEN 4 ELSE 2
      header == 2 * offset_size
      body == encode_elements(xs, large_format, 1,
                              header + Len(xs) * (1 + offset_size))
      size == header + Len(body.entries) + Len(body.values)
  IN <<IF large_format THEN JSONB_LARGE_ARRAY ELSE JSONB_SMALL_ARRAY>>
       \o ToLittleEndian(Len(xs), offset_size)
       \o ToLittleEndian(size, offset_size)
       \o body.entries \o body.values

RECURSIVE ElementSeqs(_)
ElementSeqs(n) ==
  IF n = 0 THEN {<<>>}
  ELSE LET shorter == ElementSeqs(n - 1)
       IN shorter \cup {Append(xs, e) : xs \in shorter, e \in Elements}

JsonArg(T, xs, large_format, type, cut) ==
  LET whole == encode_array(xs, large_format)
  IN [fn |-> "ExtractVectorFromJson", T |-> T, xs |-> xs,
      large_format |-> large_format, cut |-> cut,
      json_binary |-> <<type>> \o SubSeq(whole, 2, Len(whole) - cut)]

\* whole containers for every T, containers that start with the type byte
\* of an object, and containers whose end is cut off read as floats or as
\* strings
JsonArgs(max_elems, max_cut_elems) ==
  LET array(large) == IF large THEN JSONB_LARGE_ARRAY ELSE JSONB_SMALL_ARRAY
      cuts(T, xs, large) ==
        {JsonArg(T, xs, large, array(large), cut) :
           cut \in 1..(Len(encode_array(xs, large)) - 1)}
  IN {JsonArg(T, xs, large, array(large), 0) :
        T \in Ts, xs \in ElementSeqs(max_elems), large \in BOOLEAN}
     \cup
     {JsonArg(T, xs, large, object, 0) :
        T \in Ts, xs \in ElementSeqs(max_cut_elems), large \in BOOLEAN,
        object \in {0, 1}}
     \cup
     UNION {cuts(T, xs, large) :
              T \in {"float", "string"}, xs \in ElementSeqs(max_cut_elems),
              large \in BOOLEAN}

InitJson ==
  /\ InitHandler
  /\ index_type = LSMIDX
  /\ unread = {}
  /\ arg \in JsonArgs(MaxElems, MaxCutElems)
  /\ ret = NotCalled

\* the LSM scan extracts the vector of a row
call_extract ==
  /\ arg.fn = "ExtractVectorFromJson"
  /\ ret = NotCalled
  /\ \E stray \in {0, 1} :
       ret' = ExtractVectorFromJson(arg.T, arg.json_binary, stray)
  /\ UNCHANGED <<thd_killed, pk_index_cond, pc, rtn, hdlVars, idxVars, lsmVars,
                 ivfVars, polled, opened_after_error, truncated, called, sessions,
                 arg>>

(***************************************************************************)
(* The query vector at the level of its elements.  The three entries of    *)
(* the handler, index_scan (1949-1957), knn_search (1984-1992) and         *)
(* knn_search_hybrid (2021-2029), bring m_buffer to the index's dimension  *)
(* before they call the index.                                             *)
(***************************************************************************)
\* variant that reserves room without adding elements
resize_capacity(v, n, x) == v

\* std::vector::resize(n, x)
resize(v, n, x) ==
  IF Len(v) >= n THEN SubSeq(v, 1, n)
  ELSE v \o [i \in 1..(n - Len(v)) |-> x]

\* the prologue of an entry on the query vector buffer of a search of type
\* search_type: the status, the buffer, and whether the entry goes on to call
\* the index with that buffer
search_prologue(search_type, buffer, limit, dimension) ==
  IF Len(buffer) = 0
       \/ (search_type # FB_VECTOR_SEARCH_INDEX_SCAN /\ limit = 0)
  THEN [rtn |-> HA_ERR_END_OF_FILE, m_buffer |-> buffer, called |-> FALSE]
  ELSE IF Len(buffer) < dimension
  THEN [rtn |-> HA_EXIT_SUCCESS, m_buffer |-> resize(buffer, dimension, 0),
        called |-> TRUE]
  ELSE IF Len(buffer) > dimension
  THEN [rtn |-> HA_EXIT_FAILURE, m_buffer |-> buffer, called |-> FALSE]
  ELSE [rtn |-> HA_EXIT_SUCCESS, m_buffer |-> buffer, called |-> TRUE]

\* query vectors of up to n elements
RECURSIVE Vectors(_, _)
Vectors(elems, n) ==
  IF n = 0 THEN {<<>>}
  ELSE LET shorter == Vectors(elems, n - 1)
       IN shorter \cup {Append(v, e) : v \in shorter, e \in elems}

QueryArgs(dimension, limits) ==
  [fn : {"search"}, search_type : SearchTypes,
   buffer : Vectors({0, 1}, dimension + 1), limit : limits]

InitQuery ==
  /\ InitHandler
  /\ index_type \in {LSMIDX, IVF}
  /\ unread = {}
  /\ arg \in QueryArgs(Dim, 0..MaxLimit)
  /\ ret = NotCalled

\* Rdb_vector_db_handler::search up to the call of the index
call_search ==
  /\ arg.fn = "search"
  /\ ret = NotCalled
  /\ ret' = search_prologue(arg.search_type, arg.buffer, arg.limit, Dim)
  /\ UNCHANGED <<thd_killed, pk_index_cond, pc, rtn, hdlVars, idxVars, lsmVars,
                 ivfVars, polled, opened_after_error, truncated, called, sessions,
                 arg>>

(***************************************************************************)
(* create_vector_index (1884-1903) and Rdb_vector_index_ivf::setup         *)
(* (1687-1754).  An index object of the IVF class is                       *)
(*   [class, m_quantizer, m_index_l2, m_index_ip, m_inverted_list,         *)
(*    m_list_size_stats]                                                   *)
(* where a unique_ptr is <<>> (nullptr) or <<object>>; the quantizer is    *)
(* the number of its centroids, an IVF index of the library is             *)
(* [nlist, code_size].  The trained data the command service loads is      *)
(*   [error, m_nlist, m_quantizer_codes, m_pq_m, m_pq_nbits, m_pq_codes]   *)
(* with the two code vectors given by their number of floats.  A float has *)
(* four bytes.                                                             *)
(***************************************************************************)
FLAT == "FLAT"
IVFFLAT == "IVFFLAT"
IVFPQ == "IVFPQ"
IndexTypes == {FLAT, IVFFLAT, IVFPQ, LSMIDX, "NONE"}
SIZEOF_FLOAT == 4

\* std::make_unique<Rdb_vector_index_ivf>(index_def, cf_handle, index_id)
NewIndexIvf ==
  [class |-> "Rdb_vector_index_ivf", m_quantizer |-> <<>>, m_index_l2 |-> <<>>,
   m_index_ip |-> <<>>, m_inverted_list |-> <<>>, m_list_size_stats |-> <<>>]

NewIndexLsm == [class |-> "Rdb_vector_index_lsm"]

\* setup_quantizer (1838-1850): the quantizer is made before the codes are
\* checked
setup_quantizer(ix, index_data, dimension) ==
  IF index_data.m_quantizer_codes * SIZEOF_FLOAT #
       index_data.m_nlist * (dimension * SIZEOF_FLOAT)
  THEN [rtn |-> HA_EXIT_FAILURE, index |-> [ix EXCEPT !.m_quantizer = <<0>>]]
  ELSE [rtn |-> HA_EXIT_SUCCESS,
        index |-> [ix EXCEPT !.m_quantizer = <<index_data.m_nlist>>]]

\* create_index (1852-1879) for one metric: the library's index of the type,
\* <<>> when the product quantizer's codes have the wrong size
create_index(type, index_data, dimension) ==
  IF type \in {FLAT, IVFFLAT}
  THEN <<[nlist |-> index_data.m_nlist,
          code_size |-> dimension * SIZEOF_FLOAT]>>
  ELSE IF dimension * (2 ^ index_data.m_pq_nbits) # index_data.m_pq_codes
  THEN <<>>
  ELSE <<[nlist |-> index_data.m_nlist,
          code_size |->
            (index_data.m_pq_m * index_data.m_pq_nbits + 7) \div BITS_PER_BYTE]>>

\* the data setup works on: made on the spot for FLAT, loaded otherwise
index_data_of(type, loaded, dimension) ==
  IF type = FLAT
  THEN [error |-> FALSE, m_nlist |-> 1, m_quantizer_codes |-> dimension,
        m_pq_m |-> 0, m_pq_nbits |-> 0, m_pq_codes |-> 0]
  ELSE loaded

\* Rdb_vector_index_ivf::setup on the object ix: the status and the object
setup(ix, type, loaded, dimension) ==
  LET index_data == index_data_of(type, loaded, dimension)
      q == setup_quantizer(ix, index_data, dimension)
      l2 == create_index(type, index_data, dimension)
  IN IF index_data.error THEN [rtn |-> HA_EXIT_FAILURE, index |-> ix]
     ELSE IF index_data.m_nlist <= 0
     THEN [rtn |-> HA_EXIT_FAILURE, index |-> ix]
     ELSE IF type = IVFPQ
               /\ (index_data.m_pq_m <= 0 \/ index_data.m_pq_nbits <= 0
                     \/ index_data.m_pq_codes = 0)
     THEN [rtn |-> HA_EXIT_FAILURE, index |-> ix]
     ELSE IF q.rtn # HA_EXIT_SUCCESS THEN q
     ELSE IF l2 = <<>> THEN [rtn |-> HA_EXIT_FAILURE, index |-> q.index]
     ELSE [rtn |-> HA_EXIT_SUCCESS,
           index |-> [q.index EXCEPT
                        !.m_index_l2 = l2,
                        !.m_index_ip = l2,
                        !.m_inverted_list = l2,
                        !.m_list_size_stats =
                          <<[l \in 0..(l2[1].nlist - 1) |-> -1]>>]]

\* create_vector_index: the status and the caller's index, a unique_ptr
create_vector_index(type, loaded, dimension, index) ==
  IF type \in {FLAT, IVFFLAT, IVFPQ}
  THEN LET s == setup(NewIndexIvf, type, loaded, dimension)
       IN [rtn |-> s.rtn, index |-> <<s.index>>]
  ELSE IF type = LSMIDX
  THEN [rtn |-> HA_EXIT_SUCCESS, index |-> <<NewIndexLsm>>]
  ELSE [rtn |-> HA_ERR_UNSUPPORTED, index |-> index]

\* what the command service can hand over as trained data
IndexData(nlist, dimension) ==
  [error : BOOLEAN, m_nlist : 0..nlist,
   m_quantizer_codes : {n * dimension : n \in 0..nlist},
   m_pq_m : 0..1, m_pq_nbits : 0..1,
   m_pq_codes : {0, dimension, 2 * dimension}]

CreateArgs(nlist, dimension) ==
  [fn : {"create_vector_index"}, type : IndexTypes,
   loaded : IndexData(nlist, dimension)]

\* the caller's unique_ptr holds no index before the call
InitCreate ==
  /\ InitHandler
  /\ index_type \in {LSMIDX, IVF}
  /\ unread = {}
  /\ arg \in CreateArgs(NList, Dim)
  /\ ret = NotCalled

call_create ==
  /\ arg.fn = "create_vector_index"
  /\ ret = NotCalled
  /\ ret' = create_vector_index(arg.type, arg.loaded, Dim, <<>>)
  /\ UNCHANGED <<thd_killed, pk_index_cond, pc, rtn, hdlVars, idxVars, lsmVars,
                 ivfVars, polled, opened_after_error, truncated, called, sessions,
                 arg>>

(***************************************************************************)
(* Several sessions on one index.  Every session has a handler of its own  *)
(* (Rdb_vector_db_handler), all handlers call the entries of the same      *)
(* index object, whose counter is std::atomic<uint> m_hit (1199, 1808).    *)
(* A session is [pc, m_search_type, alternative, loaded, queries,          *)
(* reaching]: alternative says that the first entry has answered           *)
(* HA_ERR_UNSUPPORTED, loaded is the value of m_hit when the entry         *)
(* started, queries counts the searches of the session, reaching those of  *)
(* them an entry of the index serves.                                      *)
(***************************************************************************)
MaxSessions == 2    \* sessions that use the index at the same time
MaxQueries == 2     \* searches of one session

NewSession ==
  [pc |-> "idle", m_search_type |-> FB_VECTOR_SEARCH_KNN_FIRST,
   alternative |-> FALSE, loaded |-> 0, queries |-> 0, reaching |-> 0]

\* a search type some entry of the index of the variant serves
served_by_index(search_type, variant) ==
  index_implements(variant,
    entries_called(search_type, variant)[
      Len(entries_called(search_type, variant))])

\* the entry a session is about to call
session_entry_name(s) ==
  IF s.alternative THEN alternative_entry(s.m_search_type)[1]
  ELSE first_entry(s.m_search_type)

\* a read of the counter followed by a write of the value read plus one
racy_increment(counter, loaded) == loaded + 1

\* m_hit++ on std::atomic<uint>: one read-modify-write of the counter (the
\* counter wraps at 2^32, which MaxSessions * MaxQueries searches do not
\* reach)
atomic_increment(counter, loaded) == counter + 1

session_open ==
  /\ Len(sessions) < MaxSessions
  /\ sessions' = Append(sessions, NewSession)
  /\ UNCHANGED <<thd_killed, pk_index_cond, pc, rtn, hdlVars, idxVars,
                 lsmVars, ivfVars, polled, opened_after_error, truncated,
                 called, pureVars>>

\* index_scan, knn_search or knn_search_hybrid of the session's handler up
\* to the call of the first entry (1945-1959, 1974-1996, 2013-2031); a
\* search the checks on the query vector and the limit refuse returns
\* before it
session_search(t, search_type, accepted) ==
  /\ sessions[t].pc = "idle"
  /\ sessions[t].queries < MaxQueries
  /\ sessions' = [sessions EXCEPT ![t] =
       [pc |-> IF accepted THEN "entry" ELSE "idle",
        m_search_type |-> search_type,
        alternative |-> FALSE,
        loaded |-> 0,
        queries |-> @.queries + 1,
        reaching |-> IF accepted /\ served_by_index(search_type, index_type)
                     THEN @.reaching + 1 ELSE @.reaching]]
  /\ UNCHANGED <<thd_killed, pk_index_cond, pc, rtn, hdlVars, idxVars,
                 lsmVars, ivfVars, polled, opened_after_error, truncated,
                 called, pureVars>>

\* the entry the handler calls answers HA_ERR_UNSUPPORTED (h 103-140, cc
\* 1112-1118, 1134-1141): the handler calls the alternative entry if the
\* search type has one (1961-1963, 1998-2000) and returns the status
\* otherwise
session_entry_unsupported(t) ==
  /\ sessions[t].pc = "entry"
  /\ ~index_implements(index_type, session_entry_name(sessions[t]))
  /\ sessions' = [sessions EXCEPT ![t] =
       IF ~@.alternative /\ alternative_entry(@.m_search_type) # <<>>
       THEN [@ EXCEPT !.alternative = TRUE]
       ELSE [@ EXCEPT !.pc = "idle", !.alternative = FALSE]]
  /\ UNCHANGED <<thd_killed, pk_index_cond, pc, rtn, hdlVars, idxVars,
                 lsmVars, ivfVars, polled, opened_after_error, truncated,
                 called, pureVars>>

\* the thread enters an entry the index implements (1203, 1312, 1470, 1598,
\* 1620): the next statement is m_hit++
session_entry_begin(t) ==
  /\ sessions[t].pc = "entry"
  /\ index_implements(index_type, session_entry_name(sessions[t]))
  /\ sessions' = [sessions EXCEPT ![t] =
       [@ EXCEPT !.pc = "m_hit++", !.loaded = m_hit]]
  /\ UNCHANGED <<thd_killed, pk_index_cond, pc, rtn, hdlVars, idxVars,
                 lsmVars, ivfVars, polled, opened_after_error, truncated,
                 called, pureVars>>

\* m_hit++ (1208, 1317, 1475, 1603, 1625) and the rest of the entry, which
\* does not touch the counter
session_hit(t) ==
  /\ sessions[t].pc = "m_hit++"
  /\ m_hit' = atomic_increment(m_hit, sessions[t].loaded)
  /\ sessions' = [sessions EXCEPT ![t] =
       [@ EXCEPT !.pc = "idle", !.alternative = FALSE, !.loaded = 0]]
  /\ UNCHANGED <<thd_killed, pk_index_cond, pc, rtn, hdlVars, index_type,
                 unread, m_list_size_stats, lsmVars, ivfVars, polled,
                 opened_after_error, truncated, called, pureVars>>

NextSessions ==
  \/ session_open
  \/ \E t \in DOMAIN sessions :
       \/ \E search_type \in SearchTypes, accepted \in BOOLEAN :
            session_search(t, search_type, accepted)
       \/ session_entry_unsupported(t)
       \/ session_entry_begin(t)
       \/ session_hit(t)

(***************************************************************************)
(* Rdb_vector_index_ivf::assign_vector (1582-1589) on an index that setup  *)
(* has built.  The centroids the quantizer holds are a sequence of         *)
(* vectors, centroid i being the one of list i - 1; a vector is a sequence *)
(* of dimension coordinates; a byte of a code is [of, byte], byte number   *)
(* byte of the object of.                                                  *)
(***************************************************************************)
MaxCoord == 2       \* coordinates of a written vector are 0..MaxCoord

RECURSIVE l2_distance(_, _, _)
l2_distance(x, c, n) ==
  IF n = 0 THEN 0
  ELSE (x[n] - c[n]) * (x[n] - c[n]) + l2_distance(x, c, n - 1)

\* variant that takes a centroid no other is further from
farthest_centroids(centroids, data) ==
  {i \in 0..(Len(centroids) - 1) :
     \A j \in 0..(Len(centroids) - 1) :
       l2_distance(data, centroids[i + 1], Len(data))
         >= l2_distance(data, centroids[j + 1], Len(data))}

\* m_index_l2->quantizer->assign(1, data, &list_id) on the IndexFlatL2 the
\* centroids were added to (1848): the label of a centroid no other is
\* nearer than
nearest_centroids(centroids, data) ==
  {i \in 0..(Len(centroids) - 1) :
     \A j \in 0..(Len(centroids) - 1) :
       l2_distance(data, centroids[i + 1], Len(data))
         <= l2_distance(data, centroids[j + 1], Len(data))}

\* get_list_id (1828-1836): the list ids it can return, each with whether
\* the quantizer was asked
get_list_id(ix, centroids, data) ==
  IF ix.m_index_l2[1].nlist = 1
  THEN {[list_id |-> 0, consulted |-> FALSE]}
  ELSE {[list_id |-> i, consulted |-> TRUE] :
          i \in nearest_centroids(centroids, data)}

\* Rdb_faiss_inverted_list::add_entry (1019-1031): the assignment it leaves
add_entry(invlists, list_no, code) ==
  [m_list_id |-> list_no, m_codes |-> SubSeq(code, 1, invlists.code_size)]

\* assign_vector with the list id get_list_id returned: add_core encodes
\* the vector into code_size bytes of the index and passes them with the
\* list id to add_entry of the inverted lists
assign_vector(ix, data, list_id) ==
  LET code == [b \in 1..ix.m_index_l2[1].code_size |->
                 IF ix.m_index_l2[1].code_size = Len(data) * SIZEOF_FLOAT
                 THEN [of |-> data[(b - 1) \div SIZEOF_FLOAT + 1],
                       byte |-> (b - 1) % SIZEOF_FLOAT]
                 ELSE [of |-> data, byte |-> b - 1]]
  IN add_entry(ix.m_inverted_list[1], list_id, code)

\* the vectors of exactly dimension coordinates
Points(coords, dimension) ==
  {v \in Vectors(coords, dimension) : Len(v) = dimension}

\* the centroids of a trained index: one to nlist corners of the cube
RECURSIVE Centroids(_, _)
Centroids(nlist, dimension) ==
  IF nlist = 0 THEN {<<>>}
  ELSE LET fewer == Centroids(nlist - 1, dimension)
       IN fewer \cup {Append(cs, c) :
                        cs \in {s \in fewer : Len(s) = nlist - 1},
                        c \in Points({0, MaxCoord}, dimension)}

\* the trained data of an index with these centroids: setup makes the data
\* of a FLAT index itself, one centroid at the origin (1690-1694)
trained_data(type, centroids, dimension) ==
  [error |-> FALSE, m_nlist |-> Len(centroids),
   m_quantizer_codes |-> Len(centroids) * dimension,
   m_pq_m |-> IF type = IVFPQ THEN 1 ELSE 0,
   m_pq_nbits |-> IF type = IVFPQ THEN 1 ELSE 0,
   m_pq_codes |-> IF type = IVFPQ THEN 2 * dimension ELSE 0]

AssignArgs(nlist, dimension) ==
  [fn : {"assign_vector"}, type : {IVFFLAT, IVFPQ},
   centroids : Centroids(nlist, dimension) \ {<<>>},
   data : Points(0..MaxCoord, dimension)]
  \cup
  [fn : {"assign_vector"}, type : {FLAT},
   centroids : {[i \in 1..1 |-> [d \in 1..dimension |-> 0]]},
   data : Points(0..MaxCoord, dimension)]

\* the index create_vector_index builds for the argument
index_of(a) ==
  create_vector_index(a.type, trained_data(a.type, a.centroids, Dim), Dim,
                      <<>>).index[1]

InitAssign ==
  /\ InitHandler
  /\ index_type = IVF
  /\ unread = {}
  /\ arg \in AssignArgs(NList, Dim)
  /\ ret = NotCalled

call_assign ==
  /\ arg.fn = "assign_vector"
  /\ ret = NotCalled
  /\ \E g \in get_list_id(index_of(arg), arg.centroids, arg.data) :
       ret' = [rtn |-> "done",
               assignment |-> assign_vector(index_of(arg), arg.data, g.list_id),
               consulted |-> g.consulted]
  /\ UNCHANGED <<thd_killed, pk_index_cond, pc, rtn, hdlVars, idxVars, lsmVars,
                 ivfVars, polled, opened_after_error, truncated, called, sessions,
                 arg>>

NextAssign == call_assign

(***************************************************************************)
(* The key range of a list's iterator (Rdb_vector_iterator's constructor,  *)
(* 667-686) and the item keys written into it.  Keys are ordered as the    *)
(* column family's bytewise comparator orders them.                        *)
(***************************************************************************)
MaxPkBytes == 2     \* bytes of a primary key behind its index id

RECURSIVE add_limbs(_, _, _)
add_limbs(a, i, carry) ==
  IF i = 0 THEN <<>>
  ELSE LET d == a[i] + carry
       IN Append(add_limbs(a, i - 1, IF d >= Limb THEN 1 ELSE 0), d % Limb)

\* list_id + 1 in size_t
inc_u64(a) == add_limbs(a, 4, 1)

\* a < b for the bytewise comparator: the first byte that differs decides, a
\* proper prefix comes first
RECURSIVE bytewise_less(_, _)
bytewise_less(a, b) ==
  IF b = <<>> THEN FALSE
  ELSE IF a = <<>> THEN TRUE
  ELSE IF a[1] # b[1] THEN a[1] < b[1]
  ELSE bytewise_less(Tail(a), Tail(b))

\* the bounds the constructor pins, and what it makes of a key written
\* with write_inverted_list_item_key for the list item_list and the primary
\* key pk
iterator_bounds(index_id, list_id, item_list, pk) ==
  LET item == write_inverted_list_item_key(index_id, item_list, pk)
  IN [m_iterator_lower_bound_key |->
        write_inverted_list_key(index_id, list_id),
      m_iterator_upper_bound_key |->
        write_inverted_list_key(index_id, inc_u64(list_id)),
      item |-> item,
      read |-> read_inverted_list_key(item, index_id, item_list)]

\* list ids at both ends of the 64-bit range and where a byte carries
ListIds ==
  {<<0, 0, 0, 0>>, <<0, 0, 0, 1>>, <<0, 0, 0, 255>>, <<0, 0, 0, 256>>,
   <<0, 0, 0, Limb - 1>>, <<0, 0, 1, 0>>,
   <<Limb - 1, Limb - 1, Limb - 1, Limb - 2>>,
   <<Limb - 1, Limb - 1, Limb - 1, Limb - 1>>}

BoundsArgs(pk_bytes) ==
  [fn : {"iterator_bounds"}, index_id : KeyIds, list_id : ListIds,
   item_list : ListIds,
   pk : {write_index_id(2) \o s :
           s \in ByteStrings({0, 255}, pk_bytes) \ {<<>>}}]

InitBounds ==
  /\ InitHandler
  /\ index_type = IVF
  /\ unread = {}
  /\ arg \in BoundsArgs(MaxPkBytes)
  /\ ret = NotCalled

\* an iterator is made for list_id while a record of item_list is stored
call_bounds ==
  /\ arg.fn = "iterator_bounds"
  /\ ret = NotCalled
  /\ ret' = [rtn |-> "done"] @@
            iterator_bounds(arg.index_id, arg.list_id, arg.item_list, arg.pk)
  /\ UNCHANGED <<thd_killed, pk_index_cond, pc, rtn, hdlVars, idxVars, lsmVars,
                 ivfVars, polled, opened_after_error, truncated, called, sessions,
                 arg>>

NextBounds == call_bounds

(***************************************************************************)
(* Rdb_vector_index_ivf::dump_info (1756-1802).  The counters are          *)
(* std::atomic<long>; the sum ntotal, the list sizes kept for the          *)
(* statistics and the statistics themselves are uint, 32 bits wide.  A     *)
(* counter is -1, written <<-1>>, or a list size below 2^32; a 32-bit      *)
(* unsigned number is kept as its two 16-bit limbs <<high, low>>.          *)
(***************************************************************************)
U32Zero == <<0, 0>>
NeverScanned == <<-1>>

\* a + b in uint
add_u32(a, b) ==
  LET lo == a[2] + b[2]
  IN <<(a[1] + b[1] + lo \div Limb) % Limb, lo % Limb>>

less_u32(a, b) == a[1] < b[1] \/ (a[1] = b[1] /\ a[2] < b[2])

\* a / n in uint, n a small count
div_u32(a, n) ==
  <<a[1] \div n, ((a[1] % n) * Limb + a[2]) \div n>>

\* std::sort of the list sizes
RECURSIVE insert_u32(_, _)
insert_u32(sorted, v) ==
  IF sorted = <<>> THEN <<v>>
  ELSE IF less_u32(v, Head(sorted)) THEN <<v>> \o sorted
  ELSE <<Head(sorted)>> \o insert_u32(Tail(sorted), v)

RECURSIVE sort_u32(_)
sort_u32(sizes) ==
  IF sizes = <<>> THEN <<>>
  ELSE insert_u32(sort_u32(Tail(sizes)), Head(sizes))

\* the loop over the counters (1762-1777): [ntotal, list_size_stats, min, max]
\* with min and max std::optional, <<>> or <<value>>
RECURSIVE dump_info_loop(_, _)
dump_info_loop(stats, acc) ==
  IF stats = <<>> THEN acc
  ELSE LET v == Head(stats)
       IN dump_info_loop(Tail(stats),
            IF v = NeverScanned THEN acc
            ELSE [ntotal |-> add_u32(acc.ntotal, v),
                  list_size_stats |-> Append(acc.list_size_stats, v),
                  min |-> IF acc.min = <<>> \/ less_u32(v, acc.min[1])
                          THEN <<v>> ELSE acc.min,
                  max |-> IF acc.max = <<>> \/ less_u32(acc.max[1], v)
                          THEN <<v>> ELSE acc.max])

\* the list-size figures of the structure dump_info returns
dump_info(stats) ==
  LET acc == dump_info_loop(stats,
               [ntotal |-> U32Zero, list_size_stats |-> <<>>, min |-> <<>>,
                max |-> <<>>])
      n == Len(acc.list_size_stats)
  IN [m_ntotal |-> acc.ntotal,
      m_min_list_size |-> IF acc.min = <<>> THEN U32Zero ELSE acc.min[1],
      m_max_list_size |-> IF acc.max = <<>> THEN U32Zero ELSE acc.max[1],
      m_avg_list_size |-> IF n = 0 THEN U32Zero ELSE div_u32(acc.ntotal, n),
      m_median_list_size |->
        IF n = 0 THEN U32Zero
        ELSE sort_u32(acc.list_size_stats)[n \div 2 + 1]]

\* the values a counter can hold: never scanned, small lists, lists of 2^31
\* and more records
CounterValues ==
  {NeverScanned, <<0, 0>>, <<0, 1>>, <<0, 2>>, <<0, 3>>, <<Limb \div 2, 0>>,
   <<Limb \div 2, 1>>, <<Limb - 1, Limb - 1>>}

RECURSIVE Counters(_)
Counters(nlist) ==
  IF nlist = 0 THEN {<<>>}
  ELSE LET fewer == Counters(nlist - 1)
       IN fewer \cup {Append(s, v) :
                        s \in {x \in fewer : Len(x) = nlist - 1},
                        v \in CounterValues}

InfoArgs(nlist) ==
  [fn : {"dump_info"}, m_list_size_stats : Counters(nlist) \ {<<>>}]

InitInfo ==
  /\ InitHandler
  /\ index_type = IVF
  /\ unread = {}
  /\ arg \in InfoArgs(NList)
  /\ ret = NotCalled

call_info ==
  /\ arg.fn = "dump_info"
  /\ ret = NotCalled
  /\ ret' = [rtn |-> "done"] @@ dump_info(arg.m_list_size_stats)
  /\ UNCHANGED <<thd_killed, pk_index_cond, pc, rtn, hdlVars, idxVars, lsmVars,
                 ivfVars, polled, opened_after_error, truncated, called, sessions,
                 arg>>

NextInfo == call_info

(***************************************************************************)
(* Rdb_vector_index_ivf::analyze (1656-1685).  The call is                 *)
(*   [lists, m_list_size_stats, max_num_rows_scanned, killed_at,           *)
(*    thd_killed_at]                                                       *)
(* lists[i] being the records of list i - 1; another thread sets *killed   *)
(* once killed_at rows have been counted and thd->killed once              *)
(* thd_killed_at rows have been counted, -1 standing for never.            *)
(***************************************************************************)
MaxListLen == 2     \* records of one inverted list

flag_set(at, ntotal) == at >= 0 /\ ntotal >= at

\* the while loop over one list (1667-1680): whether analyze returned inside
\* it, with what, and the two counts
RECURSIVE analyze_list(_, _, _, _, _)
analyze_list(vector_iter, context, list_size, ntotal, a) ==
  LET av == is_available(vector_iter, context,
                         flag_set(a.thd_killed_at, ntotal), <<>>)
      e == get_key_and_codes(Current(av.it))
  IN IF ~av.available
     THEN [returned |-> FALSE, rtn |-> HA_EXIT_SUCCESS,
           list_size |-> list_size, ntotal |-> ntotal]
     ELSE IF e # HA_EXIT_SUCCESS
     THEN [returned |-> TRUE, rtn |-> e, list_size |-> list_size,
           ntotal |-> ntotal]
     ELSE IF a.max_num_rows_scanned > 0
               /\ ntotal + 1 > a.max_num_rows_scanned
     THEN [returned |-> TRUE, rtn |-> HA_EXIT_SUCCESS,
           list_size |-> list_size + 1, ntotal |-> ntotal + 1]
     ELSE IF flag_set(a.killed_at, ntotal + 1)
     THEN [returned |-> TRUE, rtn |-> HA_EXIT_FAILURE,
           list_size |-> list_size + 1, ntotal |-> ntotal + 1]
     ELSE analyze_list(iter_next(av.it), on_iterator_record(av.ctx),
                       list_size + 1, ntotal + 1, a)

\* the for loop over the lists from list i - 1 on (1662-1683): the status
\* and the counters
RECURSIVE analyze_from(_, _, _, _)
analyze_from(i, stats, ntotal, a) ==
  IF i > Len(stats) THEN [rtn |-> HA_EXIT_SUCCESS, m_list_size_stats |-> stats]
  ELSE LET r == analyze_list(NewIterator(i - 1, a.lists[i]), NewContext, 0,
                             ntotal, a)
       IN IF r.returned THEN [rtn |-> r.rtn, m_list_size_stats |-> stats]
          ELSE analyze_from(i + 1, [stats EXCEPT ![i] = r.list_size],
                            r.ntotal, a)

analyze(a) == analyze_from(1, a.m_list_size_stats, 0, a)

\* the contents of a list of up to n records, well formed or with a
\* malformed key
RECURSIVE AnalyzedList(_)
AnalyzedList(n) ==
  IF n = 0 THEN {<<>>}
  ELSE LET shorter == AnalyzedList(n - 1)
       IN shorter \cup
            {Append(c, [pk |-> n, kind |-> kd, dist |-> 0]) :
               c \in {x \in shorter : Len(x) = n - 1},
               kd \in {"ok", "bad_key"}}

AnalyzeArgs(nlist, len) ==
  [fn : {"analyze"},
   lists : [1..nlist -> AnalyzedList(len)],
   m_list_size_stats : [1..nlist -> {-1, len + 1}],
   max_num_rows_scanned : 0..len,
   killed_at : {-1} \cup 1..len,
   thd_killed_at : -1..1]

InitAnalyze ==
  /\ InitHandler
  /\ index_type = IVF
  /\ unread = {}
  /\ arg \in AnalyzeArgs(NList, MaxListLen)
  /\ ret = NotCalled

call_analyze ==
  /\ arg.fn = "analyze"
  /\ ret = NotCalled
  /\ ret' = analyze(arg)
  /\ UNCHANGED <<thd_killed, pk_index_cond, pc, rtn, hdlVars, idxVars, lsmVars,
                 ivfVars, polled, opened_after_error, truncated, called, sessions,
                 arg>>

NextAnalyze == call_analyze

(***************************************************************************)
(* Rdb_vector_iterator::is_available (690-751) called twice in a row, with *)
(* no next() between the calls, on an iterator at any position of its      *)
(* list and a context in any state a scan leaves it in.                    *)
(***************************************************************************)
AvailableArgs(pks) ==
  [fn : {"is_available"},
   vector_iter : {NewIterator(0, c) : c \in ListContents(pks, {0})},
   m_error : {HA_EXIT_SUCCESS, HA_ERR_ROCKSDB_CORRUPT_DATA},
   m_current_list_size : 0..1,
   killed : BOOLEAN,
   m_pk_index_cond : Predicates]

InitAvailable ==
  /\ InitHandler
  /\ index_type = IVF
  /\ unread = {}
  /\ arg \in AvailableArgs(1..MaxPk)
  /\ ret = NotCalled

call_available ==
  /\ arg.fn = "is_available"
  /\ ret = NotCalled
  /\ \E first \in {is_available(arg.vector_iter,
                     [NewContext EXCEPT
                        !.m_error = arg.m_error,
                        !.m_current_list_size = arg.m_current_list_size],
                     arg.killed, arg.m_pk_index_cond)} :
       ret' = [rtn |-> "done", first |-> first,
               second |-> is_available(first.it, first.ctx, arg.killed,
                                       arg.m_pk_index_cond)]
  /\ UNCHANGED <<thd_killed, pk_index_cond, pc, rtn, hdlVars, idxVars, lsmVars,
                 ivfVars, polled, opened_after_error, truncated, called, sessions,
                 arg>>

NextAvailable == call_available

(***************************************************************************)
(* Rdb_vector_index_lsm::knn_search_hybrid_with_value on one record of the *)
(* scan: the positions of the geometry and of the vector field in the      *)
(* projection (1349-1375), the query coordinate (1379-1380) and the body   *)
(* of the loop (1402-1437).  A coordinate is the eight bytes of a double   *)
(* as they stand in the buffer.  A read behind a slice yields the byte     *)
(* stray, an int that was never assigned holds the value uninit, and an    *)
(* element behind the end of index_fields is the slice wild.               *)
(***************************************************************************)
SPATIAL_LON_OFFSET == 9
SPATIAL_LAT_OFFSET == 17
DOUBLE_BYTES == 8

\* *reinterpret_cast<const double*>(data + at)
read_double(data, at, stray) ==
  [j \in 1..DOUBLE_BYTES |->
     IF at + j <= Len(data) THEN data[at + j] ELSE stray]

\* field_indexes_to_extract, spatial_field_index and vector_field_index
field_positions(field_info_list, uninit) ==
  LET first(type) ==
        {i \in DOMAIN field_info_list :
           /\ field_info_list[i].type = type
           /\ \A j \in 1..(i - 1) : field_info_list[j].type # type}
      spatial == first(MYSQL_TYPE_GEOMETRY)
      vector == first(MYSQL_TYPE_JSON)
      counts(S) == IF S = {} THEN <<>> ELSE <<(CHOOSE i \in S : TRUE) - 1>>
  IN [field_indexes_to_extract |-> counts(spatial) \o counts(vector),
      spatial_field_index |-> IF spatial # {} THEN 0 ELSE uninit,
      vector_field_index |->
        IF vector = {} THEN uninit ELSE IF spatial # {} THEN 1 ELSE 0]

\* index_fields[at]
index_field(value, index_fields, at, wild) ==
  IF at < Len(index_fields) THEN slice_bytes(value, index_fields[at + 1])
  ELSE wild

\* the first n elements at vector_data.data()
vector_elements(vector_data, n, stray) ==
  [j \in 1..n |-> IF j <= Len(vector_data) THEN vector_data[j] ELSE stray]

\* the body of the loop on a record whose value is value: the return value,
\* if the loop ends here, and the operands of the pushed score
hybrid_record(table_config, field_info_list, query_vector, m_query_coordinate, value, stray, uninit, wild) ==
  LET at == field_positions(field_info_list, uninit)
      s_decode == DecodeFieldFromValue(table_config, field_info_list,
                                       at.field_indexes_to_extract, value,
                                       stray)
      index_fields == s_decode.field_values
      s == ExtractVectorFromJson(
             "float",
             index_field(value, index_fields, at.vector_field_index, wild),
             stray)
      index_field_spatial ==
        index_field(value, index_fields, at.spatial_field_index, wild)
      n == Len(query_vector)
      none == [rtn |-> HA_EXIT_SUCCESS, pushed |-> FALSE]
      corrupt == [rtn |-> HA_ERR_ROCKSDB_CORRUPT_DATA, pushed |-> FALSE]
  IN IF Len(value) = 0 THEN none
     ELSE IF s_decode.rtn # HA_EXIT_SUCCESS THEN corrupt
     ELSE IF s.rtn # HA_EXIT_SUCCESS THEN corrupt
     ELSE [rtn |-> HA_EXIT_SUCCESS, pushed |-> TRUE,
           lon_query |-> read_double(m_query_coordinate, SPATIAL_LON_OFFSET,
                                     stray),
           lat_query |-> read_double(m_query_coordinate, SPATIAL_LAT_OFFSET,
                                     stray),
           lon |-> read_double(index_field_spatial, SPATIAL_LON_OFFSET, stray),
           lat |-> read_double(index_field_spatial, SPATIAL_LAT_OFFSET, stray),
           distance |->
             l2_distance(query_vector, vector_elements(s.result, n, stray), n)]

\* the records the step is studied on: layouts of one or two fields out of
\* a nullable geometry column, a JSON column and a SMALLINT column
POINT_BYTES == SPATIAL_LAT_OFFSET + DOUBLE_BYTES
MaxShortPoint == 10    \* bytes of a geometry value that is too short

HybridFieldInfos ==
  {FieldInfo(MYSQL_TYPE_GEOMETRY, 4, 0, TRUE),
   FieldInfo(MYSQL_TYPE_JSON, 4, 0, FALSE),
   FieldInfo(MYSQL_TYPE_SHORT, 0, 2, FALSE)}

Point(n) == [i \in 1..n |-> i]

HybridValuesOf(field_info, short_point) ==
  IF field_info.type = MYSQL_TYPE_GEOMETRY
  THEN {Null, Bytes(Point(POINT_BYTES)), Bytes(Point(short_point))}
  ELSE IF field_info.type = MYSQL_TYPE_JSON
  THEN {Bytes(encode_array(xs, FALSE)) :
          xs \in {<<Element(JSONB_INT16, 1)>>,
                  <<Element(JSONB_INT16, 1), Element(JSONB_DOUBLE, 2)>>}}
  ELSE {Bytes(<<1, 2>>)}

RECURSIVE HybridTables(_, _)
HybridTables(n, short_point) ==
  IF n = 0 THEN {[field_info_list |-> <<>>, values |-> <<>>]}
  ELSE LET more(t, f) ==
             {[field_info_list |-> Append(t.field_info_list, f),
               values |-> Append(t.values, v)] :
                v \in HybridValuesOf(f, short_point)}
       IN UNION {more(t, f) : t \in HybridTables(n - 1, short_point),
                              f \in HybridFieldInfos}

HybridArgs(max_fields, short_point) ==
  {[fn |-> "knn_search_hybrid_with_value",
    table_config |-> TableConfig(FALSE, t.field_info_list),
    field_info_list |-> t.field_info_list, values |-> t.values,
    value |-> encode_row(TableConfig(FALSE, t.field_info_list),
                         t.field_info_list, t.values),
    query_vector |-> q, m_query_coordinate |-> c] :
     t \in UNION {HybridTables(n, short_point) : n \in 1..max_fields},
     q \in {<<1>>, <<1, 2>>},
     c \in {Point(POINT_BYTES), Point(short_point)}}

InitHybridRecord ==
  /\ InitHandler
  /\ index_type = LSMIDX
  /\ unread = {}
  /\ arg \in HybridArgs(MaxFields, MaxShortPoint)
  /\ ret = NotCalled

call_hybrid_record ==
  /\ arg.fn = "knn_search_hybrid_with_value"
  /\ ret = NotCalled
  /\ \E stray \in {0, 255}, uninit \in {0, 1},
        wild \in {<<>>, encode_array(<<Element(JSONB_INT16, 1)>>, FALSE)} :
       ret' = hybrid_record(arg.table_config, arg.field_info_list,
                            arg.query_vector, arg.m_query_coordinate,
                            arg.value, stray, uninit, wild)
  /\ UNCHANGED <<thd_killed, pk_index_cond, pc, rtn, hdlVars, idxVars, lsmVars,
                 ivfVars, polled, opened_after_error, truncated, called, sessions,
                 arg>>

NextHybridRecord == call_hybrid_record

(***************************************************************************)
(* Sql_cmd_sync::execute (sql_sync.cc 171-205) with its                    *)
(* Query_result_logger (25-105).  The state of a call is held in ret:      *)
(* pc is the position in execute, i the loop counter, logger the logger's  *)
(* result_stream (a sequence of the pieces written to it) and column       *)
(* vectors, sync_log the entries appended to ../sync.log, results the      *)
(* value of execution_result of every execution made, and the flags of     *)
(* the wrapped command and of the session that execute resets.  A piece    *)
(* of the stream is [kind, run, columns]: what was written, the execution  *)
(* that wrote it and the number of columns it was laid out for.            *)
(***************************************************************************)
SYNC_RUNS == 5
MaxSyncRows == 1     \* rows a wrapped command sends in one execution
MaxSyncColumns == 1  \* columns of the wrapped command's result

Query_result_logger ==
  [result_stream |-> <<>>, column_names |-> <<>>, column_widths |-> <<>>]

\* variant that leaves the logger as the last execution left it
log_reset_keep(logger) == logger

\* Query_result_logger::log_reset
log_reset(logger) ==
  [result_stream |-> <<>>, column_names |-> <<>>, column_widths |-> <<>>]

Piece(kind, run, columns) == [kind |-> kind, run |-> run, columns |-> columns]

\* Query_result_logger::send_result_set_metadata on a list of n columns
send_result_set_metadata(logger, n, run) ==
  LET column_names == logger.column_names \o [c \in 1..n |-> c]
  IN [result_stream |->
        Append(logger.result_stream, Piece("metadata", run, Len(column_names))),
      column_names |-> column_names,
      column_widths |-> logger.column_widths \o [c \in 1..n |-> 10]]

\* Query_result_logger::send_data
send_data(logger, run) ==
  [logger EXCEPT !.result_stream =
     Append(@, Piece("data", run, Len(logger.column_widths)))]

\* Query_result_logger::send_eof
send_eof(logger, run) ==
  [logger EXCEPT !.result_stream =
     Append(@, Piece("eof", run, Len(logger.column_widths)))]

RECURSIVE send_rows(_, _, _)
send_rows(logger, rows, run) ==
  IF rows = 0 THEN logger
  ELSE send_data(send_rows(logger, rows - 1, run), run)

\* Query_result_logger::fetch_results
fetch_results(logger) == logger.result_stream

SyncArgs ==
  {[fn |-> "Sql_cmd_sync::execute", m_orig_cmd |-> cmd, columns |-> n] :
     cmd \in BOOLEAN, n \in 1..MaxSyncColumns}

InitSync ==
  /\ InitHandler
  /\ index_type = LSMIDX
  /\ unread = {}
  /\ arg \in SyncArgs
  /\ ret = NotCalled

SyncUnchanged ==
  UNCHANGED <<thd_killed, pk_index_cond, pc, rtn, hdlVars, idxVars, lsmVars,
              ivfVars, polled, opened_after_error, truncated, called, sessions,
              arg>>

SyncAt(at) ==
  /\ arg.fn = "Sql_cmd_sync::execute"
  /\ ret # NotCalled
  /\ ret.pc = at

\* 173-178: no wrapped command, or the logger is installed and the loop
\* starts; the wrapped command may have been prepared and run before
sync_enter ==
  /\ arg.fn = "Sql_cmd_sync::execute"
  /\ ret = NotCalled
  /\ \E before \in BOOLEAN :
       ret' = [rtn |-> IF arg.m_orig_cmd THEN "running" ELSE "true",
               pc |-> IF arg.m_orig_cmd THEN "reset" ELSE "done",
               i |-> 0, logger |-> Query_result_logger, sync_log |-> <<>>,
               results |-> <<>>, unit_executed |-> before,
               prepared |-> before, bypassed |-> before,
               locked_tables_mode |-> FALSE]
  /\ SyncUnchanged

\* 180-184
sync_reset ==
  /\ SyncAt("reset")
  /\ ret' = [ret EXCEPT !.pc = "execute",
                        !.logger = log_reset(ret.logger),
                        !.unit_executed = FALSE,
                        !.bypassed = FALSE,
                        !.prepared = FALSE]
  /\ SyncUnchanged

\* 186: the wrapped command runs and sends its result to the logger: a
\* command that fails sends nothing, or the metadata and rows and stops; one
\* that succeeds sends nothing, or the metadata, rows and the end
sync_execute ==
  /\ SyncAt("execute")
  /\ \E execution_result \in BOOLEAN, sends \in BOOLEAN,
        rows \in 0..MaxSyncRows, locks \in BOOLEAN :
       LET run == ret.i + 1
           sent == send_rows(send_result_set_metadata(ret.logger, arg.columns,
                                                      run),
                             rows, run)
           logger == IF ~sends THEN ret.logger
                     ELSE IF execution_result THEN sent
                     ELSE send_eof(sent, run)
       IN /\ sends \/ rows = 0
          /\ ret' = [ret EXCEPT !.pc = "log",
                                !.logger = logger,
                                !.results = Append(@, execution_result),
                                !.unit_executed = TRUE,
                                !.prepared = TRUE,
                                !.locked_tables_mode = locks]
  /\ SyncUnchanged

\* 188-201: the entry is logged; a failure returns true; otherwise the
\* tables are unlocked, the call sleeps, and the loop goes on or ends (203)
sync_log_result ==
  /\ SyncAt("log")
  /\ LET logged == Append(ret.sync_log, fetch_results(ret.logger))
         execution_result == ret.results[Len(ret.results)]
     IN ret' = IF execution_result
               THEN [ret EXCEPT !.pc = "done", !.rtn = "true",
                                !.sync_log = logged]
               ELSE [ret EXCEPT !.pc = IF ret.i + 1 < SYNC_RUNS THEN "reset"
                                       ELSE "done",
                                !.rtn = IF ret.i + 1 < SYNC_RUNS THEN "running"
                                        ELSE "false",
                                !.i = ret.i + 1,
                                !.sync_log = logged,
                                !.locked_tables_mode = FALSE]
  /\ SyncUnchanged

NextSync ==
  \/ sync_enter
  \/ sync_reset
  \/ sync_execute
  \/ sync_log_result

\* the LSM variant on a table of MaxRows rows at most, any search type
NextLsm ==
  \/ Kill
  \/ vector_index_orderby_init(SearchTypes)
  \/ search_rejected
  \/ search_begin_lsm
  \/ lsm_scan_row(MaxRows)
  \/ lsm_scan_end
  \/ next_result
  \/ vector_index_orderby_end

\* the LSM variant in hybrid mode on a table with more rows than the smallest
\* heap bound of a hybrid scan
NextLsmHybrid ==
  \/ Kill
  \/ vector_index_orderby_init({FB_VECTOR_SEARCH_KNN_HYBRID})
  \/ search_rejected
  \/ search_begin_lsm
  \/ lsm_scan_row(HybridFactor + 1)
  \/ lsm_scan_end
  \/ next_result
  \/ vector_index_orderby_end

NextIvf ==
  \/ Kill
  \/ vector_index_orderby_init(SearchTypes)
  \/ search_rejected
  \/ search_begin_ivf_knn
  \/ ivf_open_list
  \/ ivf_scan_step
  \/ ivf_search_end
  \/ search_unsupported
  \/ search_ivf_index_scan
  \/ has_more_results_scan
  \/ next_result_scan
  \/ list_is_available_loop
  \/ next_result
  \/ current_key_scan
  \/ vector_index_orderby_end

\* a call of get_key_and_codes or get_key_and_value on one record
NextRecord == call_record

\* a call of DecodeFieldFromValue on one row
NextRow == call_decode

\* a call of ExtractVectorFromJson on one container
NextJson == call_extract

\* a call of search up to the call of the index
NextQuery == call_search

\* a call of create_vector_index
NextCreate == call_create

(***************************************************************************)
(* Between two statements every row of the table is deleted: the index is  *)
(* empty when the handler, which keeps its result collections and cursors  *)
(* of the statement that ended, serves the next statement.  The locals of  *)
(* the search that ended are gone and the session starts the statement     *)
(* with its cancellation flag cleared.                                     *)
(***************************************************************************)
truncate_table ==
  /\ pc = "ended"
  /\ ~truncated
  /\ truncated' = TRUE
  /\ unread' = {}
  /\ pc' = "idle"
  /\ thd_killed' = FALSE
  /\ pk_index_cond' = <<>>
  /\ rtn' = HA_EXIT_SUCCESS
  /\ k' = 0
  /\ top_k_heap' = <<>>
  /\ keys_scanned' = 0
  /\ scanned' = <<>>
  /\ f_probe' = <<>>
  /\ f_idx' = 1
  /\ f_it' = <<>>
  /\ f_ctx' = NewContext
  /\ f_heap' = <<>>
  /\ handed' = <<>>
  /\ skipped' = <<>>
  /\ polled' = "none"
  /\ opened_after_error' = 0
  /\ called' = <<>>
  /\ UNCHANGED <<hdlVars, index_type, m_hit, m_list_size_stats, sessions,
                 pureVars>>

\* one statement on an index of either variant
InitVariants == InitLsm \/ InitIvf
NextVariants == NextLsm \/ NextIvf

\* two statements on one handler, of either variant: the second one finds
\* the index empty
InitRequery == InitLsm \/ InitIvf
NextRequery == NextLsm \/ NextIvf \/ truncate_table

Next ==
  NextLsm \/ NextLsmHybrid \/ NextIvf \/ NextRecord \/ NextRow \/ NextJson
    \/ truncate_table \/ NextQuery \/ NextCreate \/ NextSessions
    \/ NextAssign \/ NextBounds \/ NextInfo \/ NextAnalyze
    \/ NextAvailable \/ NextHybridRecord \/ NextSync

Init ==
  InitLsm \/ InitIvf \/ InitRecord \/ InitRow \/ InitJson \/ InitQuery
    \/ InitCreate \/ InitAssign \/ InitBounds \/ InitInfo
    \/ InitAnalyze \/ InitAvailable \/ InitHybridRecord
    \/ InitSync

SpecLsm == InitLsm /\ [][NextLsm]_vars
SpecLsmHybrid == InitLsm /\ [][NextLsmHybrid]_vars
SpecIvf == InitIvf /\ [][NextIvf]_vars
SpecRecord == InitRecord /\ [][NextRecord]_vars
SpecRow == InitRow /\ [][NextRow]_vars
SpecJson == InitJson /\ [][NextJson]_vars
SpecRequery == InitRequery /\ [][NextRequery]_vars
SpecQuery == InitQuery /\ [][NextQuery]_vars
SpecCreate == InitCreate /\ [][NextCreate]_vars
SpecVariants == InitVariants /\ [][NextVariants]_vars
SpecSessions == InitVariants /\ [][NextSessions]_vars
SpecAssign == InitAssign /\ [][NextAssign]_vars
SpecBounds == InitBounds /\ [][NextBounds]_vars
SpecInfo == InitInfo /\ [][NextInfo]_vars
SpecAnalyze == InitAnalyze /\ [][NextAnalyze]_vars
SpecAvailable == InitAvailable /\ [][NextAvailable]_vars
SpecHybridRecord == InitHybridRecord /\ [][NextHybridRecord]_vars
SpecSync == InitSync /\ [][NextSync]_vars
Spec == Init /\ [][Next]_vars

(***************************************************************************)
(* Properties.                                                             *)
(***************************************************************************)
Range(s) == {s[i] : i \in DOMAIN s}
Count(s, d) == Cardinality({i \in DOMAIN s : s[i] = d})
Firsts(heap) == [i \in DOMAIN heap |-> heap[i].first]
OnLsm == index_type = LSMIDX
OnIvf == index_type = IVF

\* C1: on the LSM variant the result of every search (k-NN, hybrid, index
\* scan) is in non-decreasing order of the score stored with each entry.
C1_ResultNonDecreasing ==
  OnLsm =>
    \A i \in 1..(Len(m_search_result_with_value) - 1) :
      m_search_result_with_value[i].score <=
        m_search_result_with_value[i + 1].score

\* a result of several entries whose scores differ
C1_Witness ==
  /\ OnLsm
  /\ pc = "open"
  /\ Len(m_search_result_with_value) >= MaxRows
  /\ m_search_result_with_value[1].score <
       m_search_result_with_value[Len(m_search_result_with_value)].score

\* C2: a k-NN search on the LSM variant whose rows all decode returns
\* exactly min(k, m) entries, m the number of rows with a non-empty value;
\* never more than k.
C2_ResultSize ==
  (OnLsm /\ IsKnn /\ pc = "open") =>
    /\ Len(m_search_result_with_value) = Min(k, Len(scanned))
    /\ Len(m_search_result_with_value) <= m_limit

\* more rows than k were fed, and k of them are returned
C2_Witness ==
  /\ OnLsm /\ IsKnn /\ pc = "open"
  /\ Len(scanned) > k
  /\ Len(m_search_result_with_value) = k

\* the heap of a k-NN scan on the LSM variant holds min(k, rows fed) entries,
\* their distances are the smallest distances fed so far, the heap's top is
\* its maximum, and no fed row outside the heap is strictly below the top
HeapHoldsSmallest ==
  (OnLsm /\ IsKnn /\ pc = "lsm") =>
    LET best == SubSeq(scanned, 1, Min(k, Len(scanned)))
    IN /\ Len(top_k_heap) = Len(best)
       /\ \A d \in Range(best) \cup Range(Firsts(top_k_heap)) :
            Count(Firsts(top_k_heap), d) = Count(best, d)
       /\ \A i \in DOMAIN top_k_heap :
            top_k_heap[i].first <= heap_top(top_k_heap).first
       /\ \A i \in (Len(best) + 1)..Len(scanned) :
            top_k_heap # <<>> => scanned[i] >= heap_top(top_k_heap).first

\* a row fed to the heap of a k-NN scan is pushed while the heap has fewer
\* than k entries, and afterwards enters, in place of an entry, if and only
\* if its distance is strictly below the heap's top
FedRowReplacesIffSmaller ==
  (OnLsm /\ IsKnn /\ pc = "lsm" /\ Len(scanned') = Len(scanned) + 1) =>
    LET d == CHOOSE x \in Range(scanned') :
               Count(scanned', x) > Count(scanned, x)
        entered == \E i \in DOMAIN top_k_heap' :
                     /\ top_k_heap'[i].key = Len(scanned')
                     /\ top_k_heap'[i].first = d
    IN IF Len(top_k_heap) < k
       THEN Len(top_k_heap') = Len(top_k_heap) + 1 /\ entered
       ELSE /\ Len(top_k_heap') = Len(top_k_heap)
            /\ entered <=> (top_k_heap # <<>> /\ d < heap_top(top_k_heap).first)
            /\ ~entered => top_k_heap' = top_k_heap

\* C3: during a k-NN scan on the LSM variant the heap holds min(k, rows fed)
\* entries whose distances are the smallest distances fed so far; a row is
\* pushed while the heap has fewer than k entries and afterwards replaces the
\* maximum if and only if its distance is strictly smaller, so no fed row
\* outside the heap has a distance strictly below the heap's maximum.
C3_HeapHoldsSmallest ==
  []HeapHoldsSmallest /\ [][FedRowReplacesIffSmaller]_vars

\* a row entered the full heap by replacing its maximum
C3_Witness ==
  /\ OnLsm /\ IsKnn /\ pc = "lsm"
  /\ Len(top_k_heap) = k
  /\ \E i \in DOMAIN top_k_heap : top_k_heap[i].key > k

\* C4: with a predicate attached, every record handed to get_id_and_codes
\* satisfies the predicate, and every record skipped inside is_available
\* fails it: no record that satisfies the predicate is skipped.
C4_PredicateFiltersInside ==
  (OnIvf /\ pc = "ivf" /\ pk_index_cond # <<>>) =>
    /\ \A i \in DOMAIN handed : val_int(pk_index_cond, handed[i])
    /\ \A i \in DOMAIN skipped : ~val_int(pk_index_cond, skipped[i])

\* a record failing the predicate was skipped and the next record of the same
\* list was handed over
C4_Witness ==
  /\ OnIvf /\ pc = "ivf" /\ pk_index_cond # <<>>
  /\ f_idx = 1
  /\ f_it # <<>>
  /\ Len(skipped) = 1
  /\ Len(handed) = 1
  /\ skipped[1] < handed[1]

\* C5: with a predicate attached, every row of the result of a search on
\* the LSM variant satisfies the predicate.
C5_LsmResultSatisfiesPredicate ==
  (OnLsm /\ pc = "open" /\ pk_index_cond # <<>>) =>
    \A i \in DOMAIN m_search_result_with_value :
      val_int(pk_index_cond, m_search_result_with_value[i].key)

\* C6: in hybrid mode the scan runs with a heap bound of 5 * k and the
\* result the cursor exposes has at most k entries.
C6_HybridTrimmedToLimit ==
  (OnLsm /\ IsHybrid /\ pc = "open") =>
    /\ k = HybridFactor * m_limit
    /\ Len(m_search_result_with_value) <= m_limit

\* C7: every entry of a hybrid result carries the combined score
\* vector distance + weight * spatial distance of its own row.
C7_HybridScoreIsCombined ==
  (OnLsm /\ IsHybrid /\ pc = "open") =>
    \A i \in DOMAIN m_search_result_with_value :
      LET e == m_search_result_with_value[i]
      IN e.score = e.value.dist + m_weight * e.value.sdist

\* C8: when the context of an IVF k-NN search holds an error, the search
\* has returned that error, both result collections are empty and
\* has_more_results() is false.
C8_IvfErrorNoPartialResult ==
  (OnIvf /\ IsKnn /\ pc \in {"open", "failed"}
     /\ f_ctx.m_error # HA_EXIT_SUCCESS) =>
    /\ pc = "failed"
    /\ rtn = f_ctx.m_error
    /\ m_search_result = <<>>
    /\ m_search_result_with_value = <<>>
    /\ ~has_more_results

\* a search cancelled after a record had been ranked
C8_Witness ==
  /\ OnIvf /\ IsKnn /\ pc = "failed"
  /\ f_ctx.m_error = HA_ERR_QUERY_INTERRUPTED
  /\ f_heap # <<>>
  /\ rtn = HA_ERR_QUERY_INTERRUPTED

\* C9: a row that the LSM scan reads while the cancellation flag is set
\* ends the search with Interrupted and an empty result.
C9_LsmScanChecksKilled ==
  [][(OnLsm /\ pc = "lsm" /\ thd_killed /\ keys_scanned' > keys_scanned) =>
       /\ pc' = "failed"
       /\ rtn' = HA_ERR_QUERY_INTERRUPTED
       /\ m_search_result_with_value' = <<>>]_vars

\* C10: in index-scan mode an error recorded in the list iterator's context
\* reaches the caller of the cursor, and no list is opened once it is set.
C10_IndexScanErrorSurfaced ==
  (OnIvf /\ pc = "open" /\ m_index_scan_result_iter # <<>>
     /\ m_index_scan_result_iter[1].m_context.m_error # HA_EXIT_SUCCESS) =>
    /\ \/ rtn = m_index_scan_result_iter[1].m_context.m_error
       \/ m_index_scan_result_iter[1].m_error =
            m_index_scan_result_iter[1].m_context.m_error
    /\ opened_after_error = 0

\* C11: a call of Rdb_vector_iterator::is_available made while the
\* cancellation flag is set answers false and leaves Interrupted in the
\* context's error, whatever the position of the iterator (before the first
\* record, inside the list, on an empty or exhausted list).
C11_KilledCallRecordsInterrupted ==
  [][(OnIvf /\ pc = "ivf" /\ f_it # <<>> /\ thd_killed /\ f_it' # f_it) =>
       /\ f_it' = <<>>
       /\ f_ctx'.m_error = HA_ERR_QUERY_INTERRUPTED]_vars

\* the key of the call is a key written for the iterator's index and list,
\* with a primary key behind them
KeyOfIterator ==
  /\ Len(arg.key) > INDEX_NUMBER_SIZE + UINT64_SIZE
  /\ SubSeq(arg.key, 1, INDEX_NUMBER_SIZE + UINT64_SIZE) =
       write_inverted_list_key(arg.m_index_id, to_u64(arg.m_list_id))

C19_ShortValueIsCorrupt ==
  (/\ ret # NotCalled
   /\ KeyOfIterator
   /\ arg.need_value
   /\ Len(arg.value) < arg.m_code_size) =>
    ret.rtn = HA_ERR_ROCKSDB_CORRUPT_DATA

\* the bytes the row holds for field i of the call's value tuple
FieldBytes(i) == arg.values[i + 1].bytes

\* the call decoded a whole row
DecodedWhole ==
  /\ ret # NotCalled
  /\ arg.fn = "DecodeFieldFromValue"
  /\ arg.cut = 0
  /\ ret.rtn = HA_EXIT_SUCCESS

\* C13: DecodeFieldFromValue returns one slice per requested index, and
\* output position j holds the bytes of field field_indexs[j], whatever
\* the order of the list and also when it names an index more than once.
C13_SlicePerRequestedIndex ==
  (DecodedWhole /\ Len(arg.field_info_list) <= BITS_PER_BYTE) =>
    /\ Len(ret.field_values) = Len(arg.field_indexs)
    /\ \A j \in DOMAIN arg.field_indexs :
         slice_bytes(arg.value, ret.field_values[j]) =
           FieldBytes(arg.field_indexs[j])

\* C14: decoding an encoded row with all field indexes succeeds and returns
\* the values that were encoded, a NULL field as an empty slice.
C14_RowRoundTrip ==
  (/\ ret # NotCalled
   /\ arg.fn = "DecodeFieldFromValue"
   /\ arg.cut = 0
   /\ arg.field_indexs = AllIndexes(Len(arg.field_info_list))) =>
    /\ ret.rtn = HA_EXIT_SUCCESS
    /\ \A j \in DOMAIN arg.field_indexs :
         /\ slice_bytes(arg.value, ret.field_values[j]) = FieldBytes(j - 1)
         /\ arg.values[j].null => ret.field_values[j] = EmptySlice

\* the number of bytes the row needs for its header and the fields 0..last
RECURSIVE NeededBytes(_)
NeededBytes(last) ==
  IF last < 0
  THEN (IF arg.table_config.has_ttl THEN TTL_BYTES ELSE 0)
         + arg.table_config.null_bytes_length
  ELSE NeededBytes(last - 1)
         + Len(encode_field(arg.field_info_list[last + 1],
                            arg.values[last + 1]))

\* a requested index is outside the layout, or the row ends before its
\* header or before the end of a field up to the largest requested index
Overrun ==
  \/ \E j \in DOMAIN arg.field_indexs :
       arg.field_indexs[j] >= Len(arg.field_info_list)
  \/ Len(arg.value) < NeededBytes(-1)
  \/ /\ arg.field_indexs # <<>>
     /\ Len(arg.value) < NeededBytes(SeqMax(arg.field_indexs))

\* C15: DecodeFieldFromValue returns CorruptData exactly when a requested
\* index is outside the layout or the row ends before its TTL, its null
\* bitmap or the end of a field up to the largest requested index; what
\* follows that field is not looked at, and no slice of a successful call
\* reaches behind the row.
C15_CorruptExactlyOnOverrun ==
  (ret # NotCalled /\ arg.fn = "DecodeFieldFromValue") =>
    /\ (ret.rtn = HA_ERR_ROCKSDB_CORRUPT_DATA) <=> Overrun
    /\ ret.rtn \in {HA_ERR_ROCKSDB_CORRUPT_DATA, HA_EXIT_SUCCESS}
    /\ (ret.rtn = HA_EXIT_SUCCESS) =>
         \A j \in DOMAIN ret.field_values :
           ret.field_values[j].pos + ret.field_values[j].size <= Len(arg.value)

\* ExtractVectorFromJson has returned
Extracted == ret # NotCalled /\ arg.fn = "ExtractVectorFromJson"

\* the container is whole and starts with the type byte of an array
WholeArray ==
  /\ arg.cut = 0
  /\ arg.json_binary[1] \in {JSONB_SMALL_ARRAY, JSONB_LARGE_ARRAY}

IsNumber(e) == e.type \in JSONB_INT16..JSONB_DOUBLE

\* what an element is worth as a T
ValueOf(T, e) ==
  IF e.type = JSONB_LITERAL
  THEN IF T = "bool" THEN e.v = JSONB_TRUE_LITERAL
       ELSE IF e.v = JSONB_TRUE_LITERAL THEN 1 ELSE 0
  ELSE IF IsNumber(e) THEN static_cast(T, e.v)
  ELSE e.v

\* an element whose type the decoder is not to accept for T
Unsupported(T, e) ==
  \/ e.type = JSONB_OPAQUE
  \/ e.type = JSONB_STRING /\ T # "string"
  \/ e.type # JSONB_STRING /\ T = "string"

\* C16: ExtractVectorFromJson returns CorruptData when the type byte is not
\* that of an array, when an element's type is not supported for T and when
\* the container ends before the end of an entry or of a value that is not
\* inlined; it reads no byte behind the container.
C16_CorruptOnEscapeNoReadPast ==
  Extracted =>
    /\ (\/ arg.json_binary[1] \notin {JSONB_SMALL_ARRAY, JSONB_LARGE_ARRAY}
        \/ \E i \in DOMAIN arg.xs : Unsupported(arg.T, arg.xs[i])
        \/ arg.cut > 0) => ret.rtn = HA_ERR_ROCKSDB_CORRUPT_DATA
    /\ ~ret.read_past

\* C17: an array of the literals true and false decodes to 1 and 0 for a
\* numeric T (integral or float), to true and false for bool, and is a
\* corruption for string.
C17_LiteralDecodesForNumericT ==
  (/\ Extracted
   /\ WholeArray
   /\ arg.xs # <<>>
   /\ \A i \in DOMAIN arg.xs :
        /\ arg.xs[i].type = JSONB_LITERAL
        /\ arg.xs[i].v \in {JSONB_TRUE_LITERAL, JSONB_FALSE_LITERAL}) =>
    IF arg.T = "string" THEN ret.rtn = HA_ERR_ROCKSDB_CORRUPT_DATA
    ELSE /\ ret.rtn = HA_EXIT_SUCCESS
         /\ ret.result = [i \in DOMAIN arg.xs |-> ValueOf(arg.T, arg.xs[i])]

\* C18: a whole array of numbers read as an arithmetic T, or of strings
\* read as strings, in the small or the large format, decodes successfully
\* to as many values as it has entries, in entry order, each the value of
\* its entry.
C18_ArrayRoundTrip ==
  (/\ Extracted
   /\ WholeArray
   /\ \A i \in DOMAIN arg.xs :
        \/ IsNumber(arg.xs[i]) /\ is_arithmetic(arg.T)
        \/ arg.xs[i].type = JSONB_STRING /\ arg.T = "string") =>
    /\ ret.rtn = HA_EXIT_SUCCESS
    /\ Len(ret.result) = Len(arg.xs)
    /\ \A i \in DOMAIN arg.xs : ret.result[i] = ValueOf(arg.T, arg.xs[i])

\* a small-format array of an int32 and a double, both stored behind the
\* entries, is read as floats
C18_Witness ==
  /\ Extracted
  /\ WholeArray
  /\ arg.T = "float"
  /\ ~arg.large_format
  /\ Len(arg.xs) = 2
  /\ arg.xs[1].type = JSONB_INT32
  /\ arg.xs[2].type = JSONB_DOUBLE
  /\ ret.rtn = HA_EXIT_SUCCESS
  /\ ret.result = <<70000, 1>>

(***************************************************************************)
(* C20.  On an empty index a KNN_FIRST or KNN_HYBRID query through the     *)
(* handler succeeds with an empty result, and has_more_results() is false  *)
(* on the first call after the search, whatever the earlier query on the   *)
(* handler left in its collections.  The query is one the prologue         *)
(* accepts (a vector of at most Dim elements, a limit above 0) on a table  *)
(* whose layout can be read.                                               *)
(***************************************************************************)
SearchedEmptyIndex ==
  /\ truncated
  /\ pc \in {"open", "failed"}
  /\ IsKnn \/ IsHybrid
  /\ search_precheck = HA_EXIT_SUCCESS
  /\ rtn # HA_ERR_ROCKSDB_CORRUPT_DATA

EmptyCursor ==
  /\ pc = "open"
  /\ rtn = HA_EXIT_SUCCESS
  /\ m_search_result_with_value = <<>>
  /\ IsKnn => m_search_result = <<>>
  /\ ~has_more_results

C20_EmptyIndexQuerySucceeds == SearchedEmptyIndex => EmptyCursor

(***************************************************************************)
(* C21.  With limit 0 or an empty query vector, knn_search and             *)
(* knn_search_hybrid return without calling a search entry of the index    *)
(* (the hit counter stays) and without scanning a row; both result         *)
(* collections are empty and has_more_results() is false afterwards.       *)
(***************************************************************************)
NothingToSearch ==
  /\ pc = "ready"
  /\ IsKnn \/ IsHybrid
  /\ m_buffer = 0 \/ m_limit = 0

C21_NothingToSearchReturnsEmpty ==
  [][(NothingToSearch /\ pc' # pc) =>
       /\ pc' = "failed"
       /\ m_hit' = m_hit
       /\ UNCHANGED <<lsmVars, ivfVars, unread>>
       /\ m_search_result' = <<>>
       /\ m_search_result_with_value' = <<>>
       /\ ~has_more_results']_vars

(***************************************************************************)
(* C22.  In the three entries of the handler a non-empty query vector      *)
(* shorter than the index dimension is extended with zeros to exactly Dim  *)
(* elements before the index is called, so the index sees the vector it    *)
(* sees for the explicitly padded query; a query vector longer than Dim is *)
(* rejected with an error and the index is not called.                     *)
(***************************************************************************)
Padded(v) == [i \in 1..Dim |-> IF i <= Len(v) THEN v[i] ELSE 0]

SearchPrologueRan ==
  /\ arg.fn = "search"
  /\ ret # NotCalled
  /\ arg.search_type = FB_VECTOR_SEARCH_INDEX_SCAN \/ arg.limit > 0

C22_ShortVectorZeroPadded ==
  SearchPrologueRan =>
    /\ (0 < Len(arg.buffer) /\ Len(arg.buffer) < Dim) =>
         /\ ret.called
         /\ ret.m_buffer = Padded(arg.buffer)
         /\ ret = search_prologue(arg.search_type, Padded(arg.buffer),
                                  arg.limit, Dim)
    /\ Len(arg.buffer) > Dim =>
         /\ ~ret.called
         /\ ret.rtn = HA_EXIT_FAILURE

\* a vector of one element is handed to the index with a zero appended
C22_Witness ==
  /\ SearchPrologueRan
  /\ arg.buffer = <<1>>
  /\ ret.called
  /\ ret.m_buffer = <<1>> \o [i \in 1..(Dim - 1) |-> 0]

(***************************************************************************)
(* C23.  In index-scan mode with nprobe > nlist the list iterator visits   *)
(* each of the nlist lists at most once and then ends, as it does for      *)
(* nprobe = nlist: the unfilled slots of the quantizer's answer (negative  *)
(* list ids) open no inverted-list iterator.  In every state of such a     *)
(* scan the iterator has opened the lists of the slots before              *)
(* m_list_id_iter, one list per slot, it is on the list of the last of     *)
(* these slots, and it goes on or ends as the iterator that holds only     *)
(* the nlist filled slots does.                                            *)
(***************************************************************************)
ScansUnfilledSlots ==
  /\ m_index_scan_result_iter # <<>>
  /\ Len(m_index_scan_result_iter[1].m_list_ids) > NList

C23_UnfilledSlotsOpenNoList ==
  ScansUnfilledSlots =>
    LET li == m_index_scan_result_iter[1]
        filled == [li EXCEPT !.m_list_ids = quantizer_search(NList)]
    IN /\ li.m_list_id_iter <= NList + 1
       /\ list_loop_breaks(li) = list_loop_breaks(filled)
       /\ li.m_list_id_iter <= NList =>
            li.m_list_ids[li.m_list_id_iter] =
              filled.m_list_ids[li.m_list_id_iter]
       /\ li.m_current_iterator # <<>> =>
            /\ li.m_current_iterator[1].m_list_id \in 0..(NList - 1)
            /\ li.m_current_iterator[1].m_list_id =
                 li.m_list_ids[li.m_list_id_iter - 1]

\* every list has been visited and the scan has ended without an error
C23_Witness ==
  /\ ScansUnfilledSlots
  /\ m_index_scan_result_iter[1].m_list_id_iter = NList + 1
  /\ m_index_scan_result_iter[1].m_error = HA_EXIT_SUCCESS
  /\ m_index_scan_result_iter[1].m_context.m_error = HA_EXIT_SUCCESS
  /\ polled = "end"

(***************************************************************************)
(* C24.  For KNN_FIRST and INDEX_SCAN queries the handler calls the        *)
(* alternative entry exactly when the first entry answers Unsupported      *)
(* (knn_search_with_value then knn_search; index_scan then                 *)
(* index_scan_with_value), so that on every variant the query never        *)
(* returns Unsupported and, after a successful search, the cursor reads    *)
(* from the collection that the entry which ran has filled (or has nothing *)
(* to read when that collection is empty).                                 *)
(***************************************************************************)
SearchCalledIndex ==
  /\ pc \in {"lsm", "ivf", "open", "has_more_results", "next_result", "failed"}
  /\ called # <<>>
  /\ IsKnn \/ IsIndexScan

CursorReads(entry) ==
  CASE entry = "knn_search" ->
         UsesResult \/ (m_search_result = <<>> /\ ~has_more_results)
    [] entry = "index_scan" ->
         UsesScanIter /\ m_index_scan_result_iter # <<>>
    [] OTHER ->
         \/ UsesResultWithValue /\ (IsKnn => m_search_result = <<>>)
         \/ m_search_result_with_value = <<>> /\ ~has_more_results

C24_AlternativeEntryOnUnsupported ==
  SearchCalledIndex =>
    /\ called[1] = first_entry(m_search_type)
    /\ Len(called) = 2 <=> ~index_implements(index_type, called[1])
    /\ Len(called) = 2 => <<called[2]>> = alternative_entry(m_search_type)
    /\ Len(called) <= 2
    /\ pc \in {"open", "failed"} => rtn # HA_ERR_UNSUPPORTED
    /\ pc = "open" => CursorReads(called[Len(called)])

\* an IVF variant answered a KNN_FIRST query through knn_search and the cursor
\* is on its rows
C24_Witness ==
  /\ pc = "open"
  /\ IsKnn
  /\ called = <<"knn_search_with_value", "knn_search">>
  /\ m_search_result # <<>>
  /\ UsesResult
  /\ has_more_results

(***************************************************************************)
(* C25.  The cursor is forward-only: after a successful k-NN search with   *)
(* result R, current_key() and next_result() while has_more_results() is   *)
(* true yield the entries of R in order, each once; next_result() when     *)
(* has_more_results() is false changes nothing, and has_more_results()     *)
(* does not become true again until a new search.  R is the collection the *)
(* entry that ran has filled, the cursor's position is the number of       *)
(* next_result() calls that moved it plus one.                             *)
(***************************************************************************)
KnnCursorOpen ==
  /\ pc = "open"
  /\ IsKnn \/ IsHybrid

ResultOfSearch ==
  IF called[Len(called)] = "knn_search"
  THEN m_search_result ELSE m_search_result_with_value

CursorPosition ==
  IF called[Len(called)] = "knn_search"
  THEN m_vector_db_result_iter ELSE m_vector_db_result_with_value_iter

C25_CursorForwardOnly ==
  [][KnnCursorOpen =>
       /\ CursorPosition \in 1..(Len(ResultOfSearch) + 1)
       /\ has_more_results <=> CursorPosition <= Len(ResultOfSearch)
       /\ has_more_results =>
            current_key = ResultOfSearch[CursorPosition].key
       /\ pc' = "open" =>
            /\ ResultOfSearch' = ResultOfSearch
            /\ CursorPosition' \in {CursorPosition, CursorPosition + 1}
       /\ (~has_more_results /\ pc' \in {"open", "ended"}) =>
            /\ ~has_more_results'
            /\ UNCHANGED <<m_search_result, m_search_result_with_value,
                           m_vector_db_result_iter,
                           m_vector_db_result_with_value_iter>>]_vars

\* the cursor has been moved over a result of two rows to its end
C25_Witness ==
  /\ KnnCursorOpen
  /\ Len(ResultOfSearch) = 2
  /\ CursorPosition = 3
  /\ ~has_more_results

(***************************************************************************)
(* C26.  After vector_index_orderby_end() all per-query buffers of the     *)
(* handler are cleared: the input vector buffer, both result collections,  *)
(* the index-scan iterator and the weight; has_more_results() is false     *)
(* until the next search.                                                  *)
(***************************************************************************)
C26_EndClearsBuffers ==
  [][(pc # "ended" /\ pc' = "ended") =>
       /\ m_buffer' = 0
       /\ m_search_result' = <<>>
       /\ m_search_result_with_value' = <<>>
       /\ m_index_scan_result_iter' = <<>>
       /\ m_weight' = 0
       /\ ~has_more_results']_vars

(***************************************************************************)
(* C27.  When create_vector_index fails (unsupported type, or setup()      *)
(* returning an error for missing or invalid trained data), any partially  *)
(* built index is released: the caller's index holds no index object after *)
(* the failing call.                                                       *)
(***************************************************************************)
C27_FailedCreateReleasesIndex ==
  (arg.fn = "create_vector_index" /\ ret # NotCalled
     /\ ret.rtn # HA_EXIT_SUCCESS) =>
    ret.index = <<>>

(***************************************************************************)
(* C28.  Per-list size counters are written only by analyze(): no step of  *)
(* a k-NN query or of an index scan changes a per-list size counter of the *)
(* index, so what dump_info() computes from them stays as it was.          *)
(***************************************************************************)
C28_QueriesKeepListSizeCounters ==
  [][m_list_size_stats' = m_list_size_stats]_vars

RECURSIVE SumReaching(_, _)
SumReaching(ss, n) ==
  IF n = 0 THEN 0 ELSE ss[n].reaching + SumReaching(ss, n - 1)

\* the sessions inside an entry that have not passed m_hit++ yet
InFlight == {t \in DOMAIN sessions : sessions[t].pc \in {"entry", "m_hit++"}}

\* C29: the hit counter grows by exactly one per query an entry of the index
\* serves, whether the queries run one after the other or at the same time
\* and whether the first entry or the alternative entry serves them: the
\* counter is the number of such queries less those still on their way to
\* m_hit++, so it is their number when no query is running
C29_HitCountsQueries ==
  m_hit + Cardinality({t \in InFlight :
                         served_by_index(sessions[t].m_search_type,
                                         index_type)})
    = SumReaching(sessions, Len(sessions))

\* two sessions have each been served, one of them by the alternative entry
\* of the IVF index, and no query is running
C29_Witness ==
  /\ Len(sessions) >= 2
  /\ InFlight = {}
  /\ \A t \in 1..2 : sessions[t].reaching >= 1
  /\ m_hit >= 3
  /\ index_type = IVF
  /\ \E t \in 1..2 : sessions[t].m_search_type = FB_VECTOR_SEARCH_KNN_FIRST
  /\ \E t \in 1..2 : sessions[t].queries > sessions[t].reaching

Assigned == arg.fn = "assign_vector" /\ ret # NotCalled

\* no centroid is nearer to the written vector than the one of the list
NoCentroidNearer(list) ==
  /\ list \in 0..(Len(arg.centroids) - 1)
  /\ \A j \in 1..Len(arg.centroids) :
       l2_distance(arg.data, arg.centroids[list + 1], Dim)
         <= l2_distance(arg.data, arg.centroids[j], Dim)

BoundsMade == arg.fn = "iterator_bounds" /\ ret # NotCalled

\* the item key lies in [lower bound, upper bound)
InRange ==
  /\ ~bytewise_less(ret.item, ret.m_iterator_lower_bound_key)
  /\ bytewise_less(ret.item, ret.m_iterator_upper_bound_key)

C31_Inner ==
  /\ BoundsMade
  /\ arg.list_id = <<0, 0, 0, 255>>
  /\ arg.item_list = arg.list_id
  /\ InRange
  /\ ret.read.reader = <<255, 0>>

\* a record with a key of the iterator and a value of at least code_size
\* bytes has been read, the value being asked for
ReadLongEnough ==
  /\ arg.fn \in {"get_key_and_codes", "get_key_and_value"}
  /\ ret # NotCalled
  /\ KeyOfIterator
  /\ arg.need_value
  /\ Len(arg.value) >= arg.m_code_size

\* the value has an unpack header in front of the codes and room for it
HeaderFits ==
  /\ arg.value[1] \in {RDB_UNPACK_DATA_TAG, RDB_UNPACK_COVERED_DATA_TAG}
  /\ Len(arg.value) - arg.m_code_size >=
       (IF arg.value[1] = RDB_UNPACK_DATA_TAG THEN RDB_UNPACK_HEADER_SIZE
        ELSE RDB_UNPACK_COVERED_HEADER_SIZE)

\* the offset of the codes in the value
CodesOffset ==
  IF Len(arg.value) = arg.m_code_size THEN 0
  ELSE IF arg.value[1] = RDB_UNPACK_DATA_TAG THEN RDB_UNPACK_HEADER_SIZE
  ELSE RDB_UNPACK_COVERED_HEADER_SIZE

\* C32: on a value of length L >= code_size, get_key_and_codes succeeds
\* when L = code_size, whatever the first byte, and when L > code_size, the
\* first byte is a known unpack tag and L - code_size is at least the tag's
\* header size, and returns CorruptData otherwise; the codes it returns are
\* the code_size bytes of the value behind the header, and get_key_and_value
\* returns the value without these bytes; no call on a shorter value
\* succeeds with codes
C32_CodesSlicedFromValue ==
  /\ ReadLongEnough =>
       /\ (ret.rtn = HA_EXIT_SUCCESS) <=>
            (Len(arg.value) = arg.m_code_size \/ HeaderFits)
       /\ ret.rtn \in {HA_EXIT_SUCCESS, HA_ERR_ROCKSDB_CORRUPT_DATA}
       /\ (ret.rtn = HA_EXIT_SUCCESS /\ arg.fn = "get_key_and_codes") =>
            /\ Len(ret.value) = arg.m_code_size
            /\ CodesOffset + arg.m_code_size <= Len(arg.value)
            /\ ret.value = SubSeq(arg.value, CodesOffset + 1,
                                  CodesOffset + arg.m_code_size)
       /\ (ret.rtn = HA_EXIT_SUCCESS /\ arg.fn = "get_key_and_value") =>
            ret.value = SubSeq(arg.value, 1, CodesOffset)
                          \o SubSeq(arg.value,
                                    CodesOffset + arg.m_code_size + 1,
                                    Len(arg.value))
  /\ (/\ arg.fn = "get_key_and_codes"
      /\ ret # NotCalled
      /\ ret.rtn = HA_EXIT_SUCCESS) => Len(ret.value) = arg.m_code_size

\* two codes were sliced from behind the five-byte header of a value of
\* seven bytes
C32_Witness ==
  /\ ReadLongEnough
  /\ arg.fn = "get_key_and_codes"
  /\ ret.rtn = HA_EXIT_SUCCESS
  /\ arg.value[1] = RDB_UNPACK_COVERED_DATA_TAG
  /\ Len(arg.value) = 7
  /\ ret.value = SubSeq(arg.value, 6, 7)

\* the ids the library holds in its heap
HeapIds == {f_heap[i].key : i \in DOMAIN f_heap}

\* the number of records handed over without error
Issued == Len(f_ctx.m_vectorid_key)

\* C33: within one k-NN query on an IVF index the i-th record delivered
\* without error gets the id 1024 + i - 1, whatever list it is in, and the
\* id maps to the key of that record; only a record that fails to decode is
\* delivered under the placeholder id 42, which is no issued id; and a
\* search that returns success has found the key of every id of the answer
C33_RowIdsIssuedInOrder ==
  (OnIvf /\ pc \in {"ivf", "open"} /\ IsKnn) =>
    /\ f_ctx.m_vector_id = FirstVectorId + Issued
    /\ f_ctx.m_vectorid_key = SubSeq(handed, 1, Issued)
    /\ Len(handed) \in {Issued, Issued + 1}
    /\ Len(handed) > Issued => f_ctx.m_error # HA_EXIT_SUCCESS
    /\ DUMMY_VECTOR_ID \notin FirstVectorId..(f_ctx.m_vector_id - 1)
    /\ \A i \in DOMAIN f_heap :
         IF f_heap[i].key = DUMMY_VECTOR_ID
         THEN f_ctx.m_error # HA_EXIT_SUCCESS
         ELSE /\ has_key(f_ctx, f_heap[i].key)
              /\ key_of(f_ctx, f_heap[i].key) =
                   handed[f_heap[i].key - FirstVectorId + 1]
    /\ \A i, j \in DOMAIN f_heap :
         f_heap[i].key = f_heap[j].key => i = j
    /\ pc = "open" =>
         /\ Len(m_search_result) = Len(f_heap)
         /\ {m_search_result[i].key : i \in DOMAIN m_search_result} =
              {key_of(f_ctx, id) : id \in HeapIds}

\* records of two lists got the ids 1024 and 1025 and both are in the answer
C33_Witness ==
  /\ OnIvf /\ pc = "open" /\ IsKnn
  /\ f_ctx.m_vector_id = FirstVectorId + 2
  /\ HeapIds = {FirstVectorId, FirstVectorId + 1}
  /\ Len(f_ctx.m_list_size_stats) = 2
  /\ f_ctx.m_list_size_stats[1][2] = 1
  /\ f_ctx.m_list_size_stats[2][2] = 1
  /\ Len(m_search_result) = 2

\* the record passes the predicate of the statement, if there is one
Passes(rec) == pk_index_cond = <<>> \/ val_int(pk_index_cond, rec.pk)

\* no record from the iterator's position on passes the predicate
NoneLeft(cur) ==
  cur = <<>> \/ \A i \in DOMAIN cur[1].recs : ~Passes(cur[1].recs[i])

\* a step of an index scan from list iterator a to list iterator b: a list
\* is opened only for the next slot of the quantizer's answer and, unless
\* the context holds an error, only when no record of the current list is
\* left; inside a list the position moves forward over records that fail
\* the predicate and, in next_result(), over the one record that was
\* available; a record is offered only if it passes the predicate; and the
\* scan ends without error only behind the last selected list
ScanStep(a, b) ==
  /\ b.m_list_ids = a.m_list_ids
  /\ b.m_list_id_iter \in {a.m_list_id_iter, a.m_list_id_iter + 1}
  /\ b.m_list_id_iter = a.m_list_id_iter + 1 =>
       /\ a.m_list_ids[a.m_list_id_iter] >= 0
       /\ b.m_current_iterator # <<>>
       /\ b.m_current_iterator[1].m_list_id = a.m_list_ids[a.m_list_id_iter]
       /\ b.m_context.m_error = HA_EXIT_SUCCESS =>
            NoneLeft(a.m_current_iterator)
  /\ b.m_list_id_iter = a.m_list_id_iter =>
       /\ (a.m_current_iterator = <<>>) <=> (b.m_current_iterator = <<>>)
       /\ a.m_current_iterator # <<>> =>
            LET old == a.m_current_iterator[1].recs
                new == b.m_current_iterator[1].recs
                n == Len(old) - Len(new)
            IN /\ n >= 0
               /\ new = SubSeq(old, n + 1, Len(old))
               /\ \A i \in 1..(n - 1) : ~Passes(old[i])
               /\ (n > 0 /\ Passes(old[n])) => polled' = "none"
  /\ (polled' = "more" /\ polled # "more") =>
       /\ b.m_current_iterator # <<>>
       /\ b.m_current_iterator[1].recs # <<>>
       /\ Passes(b.m_current_iterator[1].recs[1])
  /\ (/\ polled' = "end" /\ polled # "end"
      /\ b.m_error = HA_EXIT_SUCCESS
      /\ b.m_context.m_error = HA_EXIT_SUCCESS) =>
       /\ NoneLeft(b.m_current_iterator)
       /\ \/ b.m_list_id_iter > Len(b.m_list_ids)
          \/ b.m_list_ids[b.m_list_id_iter] < 0

\* C34: in index-scan mode the cursor yields the concatenation of the
\* selected lists: they are opened one at a time in the quantizer's order,
\* the next one only when the current one is exhausted, every record that
\* passes the predicate is offered once, in key order, and an empty list
\* does not end the scan
C34_ScanConcatenatesLists ==
  [][(OnIvf /\ m_index_scan_result_iter # <<>>
        /\ m_index_scan_result_iter' # <<>>) =>
       ScanStep(m_index_scan_result_iter[1], m_index_scan_result_iter'[1])]_vars

\* the first list selected was empty and a record of the second is offered
C34_Witness ==
  /\ OnIvf /\ pc = "open"
  /\ m_index_scan_result_iter # <<>>
  /\ m_index_scan_result_iter[1].m_list_id_iter = 3
  /\ m_index_scan_result_iter[1].m_current_iterator # <<>>
  /\ polled = "more"
  /\ pk_index_cond # <<>>
  /\ unread \cup PksOf(m_index_scan_result_iter[1].m_current_iterator[1].recs)
       = 1..MaxPk

InfoDumped == arg.fn = "dump_info" /\ ret # NotCalled

\* the counters of the lists that have been scanned
ScannedSizes ==
  SelectSeq(arg.m_list_size_stats, LAMBDA v : v # NeverScanned)

\* the sum of list sizes as a number of three limbs
RECURSIVE TrueSum(_)
TrueSum(sizes) ==
  IF sizes = <<>> THEN <<0, 0, 0>>
  ELSE LET t == TrueSum(Tail(sizes))
           lo == t[3] + Head(sizes)[2]
           hi == t[2] + Head(sizes)[1] + lo \div Limb
       IN <<t[1] + hi \div Limb, hi % Limb, lo % Limb>>

LeqU32(a, b) == ~less_u32(b, a)

\* C35: dump_info counts only the lists whose counter is >= 0: ntotal is
\* the sum of their counters, avg is the integer quotient of ntotal by their
\* number and median the element at index count/2 of the sorted sizes,
\* min <= avg <= max and min <= median <= max, and all four figures are 0
\* when no list has been scanned
C35_ListSizeFigures ==
  InfoDumped =>
    /\ <<0>> \o ret.m_ntotal = TrueSum(ScannedSizes)
    /\ LeqU32(ret.m_min_list_size, ret.m_avg_list_size)
    /\ LeqU32(ret.m_avg_list_size, ret.m_max_list_size)
    /\ LeqU32(ret.m_min_list_size, ret.m_median_list_size)
    /\ LeqU32(ret.m_median_list_size, ret.m_max_list_size)
    /\ ScannedSizes # <<>> =>
         /\ ret.m_avg_list_size = div_u32(ret.m_ntotal, Len(ScannedSizes))
         /\ ret.m_median_list_size =
              sort_u32(ScannedSizes)[Len(ScannedSizes) \div 2 + 1]
    /\ ScannedSizes = <<>> =>
         /\ ret.m_min_list_size = U32Zero
         /\ ret.m_max_list_size = U32Zero
         /\ ret.m_avg_list_size = U32Zero
         /\ ret.m_median_list_size = U32Zero

Analyzed == arg.fn = "analyze" /\ ret # NotCalled

\* C36: a counter analyze() has written is the number of records of its
\* list, a list that was not scanned to its end keeps the counter it had,
\* and an analyze run under a cancellation flag that was set before it
\* read a record does not return success
C36_AnalyzeStoresTrueCounts ==
  Analyzed =>
    /\ \A i \in DOMAIN arg.lists :
         ret.m_list_size_stats[i] \in
           {arg.m_list_size_stats[i], Len(arg.lists[i])}
    /\ (arg.thd_killed_at = 0 /\ \E i \in DOMAIN arg.lists : arg.lists[i] # <<>>)
         => ret.rtn # HA_EXIT_SUCCESS

\* C37: a second call of Rdb_vector_iterator::is_available with no next()
\* in between gives the answer of the first call, leaves the key-value
\* position on the same record and leaves the context as the first call
\* left it: error, current list size and recorded list sizes
C37_IsAvailableIdempotent ==
  (arg.fn = "is_available" /\ ret # NotCalled) =>
    /\ ret.second.available = ret.first.available
    /\ ret.second.it = ret.first.it
    /\ ret.second.ctx = ret.first.ctx

(***************************************************************************)
(* C38: the null bit DecodeFieldFromValue consults for a nullable field    *)
(* lies within the null_bytes_length bytes of the row's null bitmap, also  *)
(* when the layout has more than 8 * null_bytes_length fields.  A call     *)
(* that returns success on a list of indexes has parsed every field up to  *)
(* the largest index asked for.                                            *)
(***************************************************************************)
Decoded ==
  /\ arg.fn = "DecodeFieldFromValue"
  /\ ret # NotCalled
  /\ ret.rtn = HA_EXIT_SUCCESS
  /\ arg.field_indexs # <<>>

\* the fields whose null bit the loop consulted (129-131)
ConsultedFields ==
  {i \in 0..SeqMax(arg.field_indexs) :
     /\ arg.field_info_list[i + 1].is_nullable
     /\ arg.table_config.null_bytes_length > 0}

C38_NullBitInsideBitmap ==
  Decoded =>
    \A i \in ConsultedFields :
      i \div BITS_PER_BYTE < arg.table_config.null_bytes_length

(***************************************************************************)
(* C39: the hybrid LSM search returns CorruptData, and computes no score,  *)
(* on a stored spatial field shorter than 25 bytes (a NULL geometry        *)
(* included), a query coordinate shorter than 25 bytes, a stored vector    *)
(* with fewer elements than the query vector, and a layout without a       *)
(* geometry field or without a vector field.                               *)
(***************************************************************************)
HybridRecordDone ==
  /\ arg.fn = "knn_search_hybrid_with_value"
  /\ ret # NotCalled

FieldsOfType(type) ==
  {i \in DOMAIN arg.field_info_list : arg.field_info_list[i].type = type}

StoredOfType(type) ==
  arg.values[CHOOSE i \in FieldsOfType(type) :
               \A j \in FieldsOfType(type) : i <= j]

ShortInput ==
  \/ FieldsOfType(MYSQL_TYPE_GEOMETRY) = {}
  \/ FieldsOfType(MYSQL_TYPE_JSON) = {}
  \/ Len(arg.m_query_coordinate) < POINT_BYTES
  \/ Len(StoredOfType(MYSQL_TYPE_GEOMETRY).bytes) < POINT_BYTES
  \/ Len(StoredOfType(MYSQL_TYPE_JSON).bytes)
       < Len(encode_array([j \in 1..Len(arg.query_vector) |->
                             Element(JSONB_INT16, 1)], FALSE))

C39_HybridCorruptOnShortInput ==
  (HybridRecordDone /\ ShortInput) =>
    /\ ret.rtn = HA_ERR_ROCKSDB_CORRUPT_DATA
    /\ ~ret.pushed

\* on a complete record the score is made of the stored coordinates
C39_CompleteRecordScored ==
  (HybridRecordDone /\ ~ShortInput) =>
    /\ ret.rtn = HA_EXIT_SUCCESS
    /\ ret.pushed
    /\ ret.lon = [j \in 1..DOUBLE_BYTES |-> SPATIAL_LON_OFFSET + j]
    /\ ret.lat = [j \in 1..DOUBLE_BYTES |-> SPATIAL_LAT_OFFSET + j]
    /\ ret.lon_query = ret.lon
    /\ ret.distance \in {0, 1}

(***************************************************************************)
(* C40: Sql_cmd_sync::execute runs the wrapped command at most 5 times,    *)
(* one after the other; it logs the result of every execution, a failing   *)
(* one included; it returns true right after the first failing execution   *)
(* or when there is no wrapped command, and false after five successful    *)
(* executions; and between two executions it resets the logger and the     *)
(* execution state, so that the log entry of a run holds nothing of an     *)
(* earlier run.                                                            *)
(***************************************************************************)
InSync ==
  /\ arg.fn = "Sql_cmd_sync::execute"
  /\ ret # NotCalled

Failed(j) == ret.results[j]

\* what run j sent and nothing else: laid out for the columns of one result
OwnEntry(j) ==
  \A p \in DOMAIN ret.sync_log[j] :
    /\ ret.sync_log[j][p].run = j
    /\ ret.sync_log[j][p].columns = arg.columns

====
